---- MODULE Spec2Model ----
(***************************************************************************)
(* PrivaGlass: the WhatsApp export parser (src/services/db.ts, the part    *)
(* headed parser.ts) and the chunked load driver of src/App.tsx.           *)
(*                                                                         *)
(* Strings are sequences of one-character strings; offsets into a          *)
(* transcript are 0-based as in the source, indexes into a line 1-based.   *)
(* Message objects live in a heap and lists hold heap ids, because the     *)
(* source shares one ChatMessage object between the returned list, the     *)
(* accumulated list and stateTracker.current, and mutates it in place.     *)
(***************************************************************************)
EXTENDS Integers, Sequences, FiniteSets, TLC

(***************************************************************************)
(* Characters and character classes of the regular expressions.            *)
(***************************************************************************)
Digits == {"0", "1", "2", "3", "4", "5", "6", "7", "8", "9"}

UpperLetters == <<"A", "B", "C", "D", "E", "F", "G", "H", "I", "J", "K", "L", "M",
                  "N", "O", "P", "Q", "R", "S", "T", "U", "V", "W", "X", "Y", "Z">>

LowerLetters == <<"a", "b", "c", "d", "e", "f", "g", "h", "i", "j", "k", "l", "m",
                  "n", "o", "p", "q", "r", "s", "t", "u", "v", "w", "x", "y", "z">>

UpperSet == {UpperLetters[i] : i \in DOMAIN UpperLetters}

LowerSet == {LowerLetters[i] : i \in DOMAIN LowerLetters}

\* \s of a regular expression, and the characters String.prototype.trim removes
Whitespace == {" ", "\t", "\n", "\r"}

\* the characters "." of a regular expression does not match
LineTerminators == {"\n", "\r"}

\* [\/\.\-] between the numeric groups of a date
DateSeparators == {"/", ".", "-"}

\* [a-zA-Z0-9._\-] of ATTACHMENT_REGEXP
AttachmentChars == UpperSet \cup LowerSet \cup Digits \cup {".", "_", "-"}

\* [:\s\-] of the residue strip /^[:\s\-]+|[:\s\-]+$/g
ResidueChars == Whitespace \cup {":", "-"}

\* [\s\-] between the timestamp and the author
GapChars == Whitespace \cup {"-"}

LowerOf == [c \in UpperSet |-> LowerLetters[CHOOSE i \in DOMAIN UpperLetters : UpperLetters[i] = c]]

ToLowerChar(c) == IF c \in UpperSet THEN LowerOf[c] ELSE c

\* String.prototype.toLowerCase
ToLowerCase(s) == [i \in 1..Len(s) |-> ToLowerChar(s[i])]

\* the least element of a set of integers, none when the set is empty
First(S, none) == IF S = {} THEN none ELSE CHOOSE x \in S : \A y \in S : x <= y

\* the greatest element of a set of integers, none when the set is empty
Last(S, none) == IF S = {} THEN none ELSE 0 - First({0 - x : x \in S}, 0)

(***************************************************************************)
(* String primitives.                                                      *)
(***************************************************************************)
\* content.substring(from, to), 0-based, to exclusive
Substring(s, from, to) == SubSeq(s, from + 1, to)

\* content.indexOf(ch, from), 0-based, -1 when absent
IndexOf(s, ch, from) == First({i \in from..(Len(s) - 1) : s[i + 1] = ch}, -1)

RECURSIVE RunLength(_, _, _)
\* length of the longest run of characters of class starting at 1-based index i
RunLength(s, i, class) ==
  IF i > Len(s) \/ s[i] \notin class THEN 0 ELSE 1 + RunLength(s, i + 1, class)

RECURSIVE RunLengthBack(_, _, _)
\* length of the longest run of characters of class ending at 1-based index i
RunLengthBack(s, i, class) ==
  IF i < 1 \/ s[i] \notin class THEN 0 ELSE 1 + RunLengthBack(s, i - 1, class)

\* s without the characters of class it starts and ends with
Strip(s, class) ==
  SubSeq(s, 1 + RunLength(s, 1, class), Len(s) - RunLengthBack(s, Len(s), class))

\* String.prototype.trim
Trim(s) == Strip(s, Whitespace)

\* whether pat, given in lower case, occurs in s at 1-based index i, letter case ignored
MatchesAtIgnoreCase(s, i, pat) ==
  /\ i >= 1
  /\ i + Len(pat) - 1 <= Len(s)
  /\ \A k \in 1..Len(pat) : ToLowerChar(s[i + k - 1]) = pat[k]

\* whether pat occurs in s at 1-based index i, exactly
MatchesAt(s, i, pat) ==
  /\ i >= 1
  /\ i + Len(pat) - 1 <= Len(s)
  /\ \A k \in 1..Len(pat) : s[i + k - 1] = pat[k]

\* String.prototype.includes
Includes(s, pat) == \E i \in 1..(Len(s) + 1) : MatchesAt(s, i, pat)

\* s without the n characters from 1-based index i on; s itself when i is 0
Without(s, i, n) == IF i = 0 THEN s ELSE SubSeq(s, 1, i - 1) \o SubSeq(s, i + n, Len(s))

\* s.replace(pat, '') with a string pattern: the first occurrence only
ReplaceFirst(s, pat) ==
  Without(s, First({i \in 1..Len(s) : pat # <<>> /\ MatchesAt(s, i, pat)}, 0), Len(pat))

\* s.replace(/^[:\s\-]+|[:\s\-]+$/g, '')
StripResidue(s) == Strip(s, ResidueChars)

(***************************************************************************)
(* MESSAGE_REGEXP (db.ts:145), matched as a backtracking engine matches    *)
(* it.  Up to the end of the time every quantifier is forced: it takes all *)
(* it can, because what follows it cannot match a character it gave back   *)
(* (a digit after a run of digits, "[" or "," where a digit or a space is  *)
(* due, ":dd" where the author would have to start with ":").  The author  *)
(* [^:]+ ends at the first colon after the time.  Between the time and     *)
(* that colon the optional \s, AM/PM, "]" and the gap [\s\-]* are greedy:  *)
(* the engine settles on the first choice, in its order of preference,     *)
(* that leaves the author at least one character.                          *)
(***************************************************************************)
NoMatch == [ok |-> FALSE, timestamp |-> <<>>, author |-> <<>>, body |-> <<>>]

\* ^\[?\d{1,4}[\/\.\-]\d{1,4}[\/\.\-]\d{1,4},?\s\d{1,2}:\d{2} as [class, min, max] steps
HeaderPrefix ==
  << [class |-> {"["}, min |-> 0, max |-> 1],
     [class |-> Digits, min |-> 1, max |-> 4],
     [class |-> DateSeparators, min |-> 1, max |-> 1],
     [class |-> Digits, min |-> 1, max |-> 4],
     [class |-> DateSeparators, min |-> 1, max |-> 1],
     [class |-> Digits, min |-> 1, max |-> 4],
     [class |-> {","}, min |-> 0, max |-> 1],
     [class |-> Whitespace, min |-> 1, max |-> 1],
     [class |-> Digits, min |-> 1, max |-> 2],
     [class |-> {":"}, min |-> 1, max |-> 1],
     [class |-> Digits, min |-> 2, max |-> 2] >>

\* (?::\d{2})? when it is taken
SecondsSuffix ==
  << [class |-> {":"}, min |-> 1, max |-> 1],
     [class |-> Digits, min |-> 2, max |-> 2] >>

RECURSIVE MatchForced(_, _, _)
\* the 1-based index after steps matched from index i, each step taking as many
\* characters of its class as it can up to its max; 0 if a step gets less than its min
MatchForced(s, i, steps) ==
  IF steps = <<>> THEN i
  ELSE LET run == RunLength(s, i, steps[1].class)
           n == IF run > steps[1].max THEN steps[1].max ELSE run
       IN IF n < steps[1].min THEN 0 ELSE MatchForced(s, i + n, Tail(steps))

\* the ways \s? (AM|PM)? \]? can match from 1-based index t and leave the author a
\* character before the colon at c: [w, a, b] are the lengths matched
HeaderGaps(s, t, c) ==
  {o \in [w : 0..1, a : {0, 2}, b : 0..1] :
     /\ t + o.w + o.a + o.b < c
     /\ o.w = 1 => s[t] \in Whitespace
     /\ o.a = 2 => \/ MatchesAtIgnoreCase(s, t + o.w, <<"a", "m">>)
                   \/ MatchesAtIgnoreCase(s, t + o.w, <<"p", "m">>)
     /\ o.b = 1 => s[t + o.w + o.a] = "]"}

\* the engine tries the longer match of each greedy quantifier first, the earlier
\* quantifier deciding: the rank of a way grows with the engine's preference for it
GapRank(o) == o.w * 4 + o.a + o.b

\* the length [\s\-]* matches from 1-based index from: all it can, short of the one
\* character the author needs before the colon at c
GapLength(s, from, c) ==
  IF RunLength(s, from, GapChars) < c - from THEN RunLength(s, from, GapChars)
  ELSE c - 1 - from

\* from the end of the time (1-based index t): \s? (AM|PM)? \]? [\s\-]* ([^:]+) : \s (.*) $
MatchHeaderTail(s, tsStart, t) ==
  LET c == First({k \in t..Len(s) : s[k] = ":"}, 0)
      gaps == HeaderGaps(s, t, c)
  IN IF /\ c # 0
        /\ gaps # {}
        /\ c + 1 <= Len(s)
        /\ s[c + 1] \in Whitespace
        /\ \A k \in (c + 2)..Len(s) : s[k] \notin LineTerminators
     THEN LET o == CHOOSE x \in gaps : \A y \in gaps : GapRank(x) >= GapRank(y)
          IN [ok |-> TRUE,
              timestamp |-> SubSeq(s, tsStart, t + o.w + o.a - 1),
              author |-> SubSeq(s, t + o.w + o.a + o.b
                                     + GapLength(s, t + o.w + o.a + o.b, c), c - 1),
              body |-> SubSeq(s, c + 2, Len(s))]
     ELSE NoMatch

\* line.match(MESSAGE_REGEXP): [ok, timestamp, author, body]
MatchHeader(s) ==
  LET i7 == MatchForced(s, 1, HeaderPrefix)
      i8 == MatchForced(s, i7, SecondsSuffix)
  IN IF i7 = 0 THEN NoMatch
     ELSE MatchHeaderTail(s, IF s[1] = "[" THEN 2 ELSE 1, IF i8 = 0 THEN i7 ELSE i8)

(***************************************************************************)
(* ATTACHMENT_REGEXP (db.ts:150).  The alternatives are tried in the order *)
(* written, so "doc" wins over "docx" and "xls" over "xlsx".               *)
(***************************************************************************)
AttachmentExtensions ==
  << <<"j", "p", "g">>, <<"j", "p", "e", "g">>, <<"p", "n", "g">>, <<"w", "e", "b", "p">>,
     <<"g", "i", "f">>, <<"h", "e", "i", "c">>, <<"m", "p", "4">>, <<"o", "p", "u", "s">>,
     <<"m", "4", "a">>, <<"w", "a", "v">>, <<"p", "d", "f">>,
     <<"s", "t", "i", "c", "k", "e", "r">>, <<"d", "o", "c">>, <<"d", "o", "c", "x">>,
     <<"x", "l", "s">>, <<"x", "l", "s", "x">>, <<"t", "x", "t">> >>

\* the first alternative of the extension group that matches at 1-based index i, 0 if none
ExtensionAt(s, i) ==
  First({e \in DOMAIN AttachmentExtensions : MatchesAtIgnoreCase(s, i, AttachmentExtensions[e])}, 0)

\* the "."s of s that an alternative of the extension group follows
ExtensionDots(s) == {d \in 1..Len(s) : s[d] = "." /\ ExtensionAt(s, d + 1) # 0}

\* the "." that the match of [a-zA-Z0-9._\-]+\.(ext) starting at p ends its name with:
\* the greedy name gives back characters until a "." followed by an extension is
\* found, so it is the last of dots that only name characters separate from p, "."
\* being one of them; 0 if there is none
LastExtensionDot(s, p, dots) ==
  Last({d \in dots : d > p /\ \A k \in p..(d - 1) : s[k] \in AttachmentChars}, 0)

\* the 1-based index of the last character of the match whose name ends with the "." at d
ExtensionEnd(s, d) ==
  IF d = 0 THEN 0 ELSE d + Len(AttachmentExtensions[ExtensionAt(s, d + 1)])

\* the match of ATTACHMENT_REGEXP that starts at p; <<>> if there is none
AttachmentFrom(s, p, dots) == SubSeq(s, p, ExtensionEnd(s, LastExtensionDot(s, p, dots)))

\* the indices a match starts at: those that only name characters separate from one
\* of dots
AttachmentStarts(s, dots) ==
  UNION {{p \in 1..(d - 1) : \A k \in p..(d - 1) : s[k] \in AttachmentChars} : d \in dots}

\* the match at the leftmost index that has one, trimmed
FirstAttachmentAmong(s, dots) ==
  Trim(AttachmentFrom(s, First(AttachmentStarts(s, dots), Len(s) + 1), dots))

\* mediaMatch ? mediaMatch[0].trim() : null, with <<>> for null
FirstAttachment(s) == FirstAttachmentAmong(s, ExtensionDots(s))

(***************************************************************************)
(* SYSTEM_PATTERNS (db.ts:155-160), each replaced globally by ''.          *)
(***************************************************************************)
FileAttachedText == <<"(", "f", "i", "l", "e", " ", "a", "t", "t", "a", "c", "h", "e", "d", ")">>

AttachedOpenText == <<"<", "a", "t", "t", "a", "c", "h", "e", "d">>

MediaOmittedText == <<"m", "e", "d", "i", "a", " ", "o", "m", "i", "t", "t", "e", "d">>

ViewOnceText == <<"v", "i", "e", "w", " ", "o", "n", "c", "e">>

\* the 1-based index after :?\s* matched from index from, both taking all they can
SkipColonSpace(s, from) ==
  (from + (IF MatchesAt(s, from, <<":">>) THEN 1 ELSE 0))
    + RunLength(s, from + (IF MatchesAt(s, from, <<":">>) THEN 1 ELSE 0), Whitespace)

\* length of the match that starts at 1-based index i and ends with a lazy .*? from
\* index from to the first closing character, at g (0 when there is none): "." does
\* not match a line terminator
LazySpanTo(s, i, from, g) ==
  IF g # 0 /\ \A k \in from..(g - 1) : s[k] \notin LineTerminators THEN g - i + 1 ELSE 0

\* length of the match of SYSTEM_PATTERNS[kind - 1] at 1-based index i, 0 for no match
SystemPatternAt(kind, s, i) ==
  CASE kind = 1 -> IF MatchesAtIgnoreCase(s, i, FileAttachedText) THEN Len(FileAttachedText) ELSE 0
    [] kind = 2 -> IF MatchesAtIgnoreCase(s, i, AttachedOpenText)
                   THEN LazySpanTo(s, i, SkipColonSpace(s, i + Len(AttachedOpenText)),
                          First({g \in (i + Len(AttachedOpenText))..Len(s) : s[g] = ">"}, 0))
                   ELSE 0
    [] kind = 3 -> IF MatchesAtIgnoreCase(s, i, MediaOmittedText) THEN Len(MediaOmittedText) ELSE 0
    [] kind = 4 -> IF s[i] = "["
                   THEN LazySpanTo(s, i, i + 1, First({g \in (i + 1)..Len(s) : s[g] = "]"}, 0))
                   ELSE 0

RECURSIVE ReplacePattern(_, _, _)
\* s from 1-based index i on without the matches of the pattern, the leftmost match
\* being at j (0 for none): it is dropped and the scan resumes after it
ReplaceFrom(kind, s, i, j) ==
  IF j = 0 THEN SubSeq(s, i, Len(s))
  ELSE SubSeq(s, i, j - 1) \o ReplacePattern(kind, s, j + SystemPatternAt(kind, s, j))

\* s.replace(SYSTEM_PATTERNS[kind - 1], '') from 1-based index i on
ReplacePattern(kind, s, i) ==
  ReplaceFrom(kind, s, i, First({j \in i..Len(s) : SystemPatternAt(kind, s, j) > 0}, 0))

RECURSIVE StripSystemPatternsFrom(_, _)
\* the patterns from SYSTEM_PATTERNS[kind - 1] on, each applied to the result of the last
StripSystemPatternsFrom(kind, s) ==
  IF kind > 4 THEN s ELSE StripSystemPatternsFrom(kind + 1, ReplacePattern(kind, s, 1))

\* SYSTEM_PATTERNS.forEach(regex => body = body.replace(regex, ''))
StripSystemPatterns(s) == StripSystemPatternsFrom(1, s)

\* body.replace(fileName, '').trim().replace(/^[:\s\-]+|[:\s\-]+$/g, '') after the strip
CleanText(s, fileName) == StripResidue(Trim(ReplaceFirst(StripSystemPatterns(s), fileName)))

(***************************************************************************)
(* parseWhatsAppStringChunk (db.ts:166-233).                               *)
(***************************************************************************)
\* an absent mediaUrl, and the result of Map.get for a missing key
NoUrl == <<>>

\* assetMap.get(name)
MapGet(assetMap, name) == IF name \in DOMAIN assetMap THEN assetMap[name] ELSE NoUrl

\* a lookup that tries the name as written only
ResolveUrlVerbatim(assetMap, fileName) == MapGet(assetMap, fileName)

\* assetMap.get(fileName) || assetMap.get(fileName.toLowerCase())
ResolveUrl(assetMap, fileName) ==
  IF MapGet(assetMap, fileName) # NoUrl THEN MapGet(assetMap, fileName)
  ELSE MapGet(assetMap, ToLowerCase(fileName))

\* iOS header of the continuation example: '[1/2/23, 10:00:00 AM] Alice: Hello'
HelloHeader ==
  <<"[", "1", "/", "2", "/", "2", "3", ",", " ", "1", "0", ":", "0", "0", ":", "0", "0",
    " ", "A", "M", "]", " ", "A", "l", "i", "c", "e", ":", " ", "H", "e", "l", "l", "o">>

\* a continuation line without a filename: 'How are you?'
HowAreYou ==
  <<"H", "o", "w", " ", "a", "r", "e", " ", "y", "o", "u", "?">>

\* Android header that carries an attachment: '1/2/23, 10:01 - Bob: IMG_001.jpg (file attached)'
BobAttachment ==
  <<"1", "/", "2", "/", "2", "3", ",", " ", "1", "0", ":", "0", "1", " ", "-", " ", "B",
    "o", "b", ":", " ", "I", "M", "G", "_", "0", "0", "1", ".", "j", "p", "g", " ", "(",
    "f", "i", "l", "e", " ", "a", "t", "t", "a", "c", "h", "e", "d", ")">>

\* a continuation line that names an attachment in another letter case: '<attached: IMG_001.JPG>'
AttachedUpper ==
  <<"<", "a", "t", "t", "a", "c", "h", "e", "d", ":", " ", "I", "M", "G", "_", "0", "0",
    "1", ".", "J", "P", "G", ">">>

\* a continuation line naming a file the bundle lacks, with text around it: 'see notes.pdf now'
SeeNotes ==
  <<"s", "e", "e", " ", "n", "o", "t", "e", "s", ".", "p", "d", "f", " ", "n", "o", "w">>

\* an empty line: ''
BlankLine ==
  <<>>

\* a line MESSAGE_REGEXP accepts with a blank author: '1/2/23, 10:02 : hi'
BlankSender ==
  <<"1", "/", "2", "/", "2", "3", ",", " ", "1", "0", ":", "0", "2", " ", ":", " ", "h", "i">>

\* a continuation line of a CRLF file, indented: '  ok\r'
PaddedOk ==
  <<" ", " ", "o", "k", "\r">>

\* the lines transcripts are built from
SampleLines ==
  {HelloHeader, HowAreYou, BobAttachment, AttachedUpper, SeeNotes, BlankLine, BlankSender,
   PaddedOk}

\* a message literal that takes the flag from the stripped text
NewMessageStrippedFlag(headMatch, fileName, assetMap) ==
  [timestamp |-> Trim(headMatch.timestamp),
   sender |-> Trim(headMatch.author),
   text |-> IF fileName # <<>> THEN CleanText(Trim(headMatch.body), fileName)
            ELSE Trim(headMatch.body),
   isViewOnce |->
     Includes(ToLowerCase(IF fileName # <<>> THEN CleanText(Trim(headMatch.body), fileName)
                          ELSE Trim(headMatch.body)), ViewOnceText),
   mediaUrl |-> IF fileName # <<>> THEN ResolveUrl(assetMap, fileName) ELSE NoUrl]

\* the ChatMessage of lines 203-209, from the match of a header line and its fileName
NewMessage(headMatch, fileName, assetMap) ==
  [timestamp |-> Trim(headMatch.timestamp),
   sender |-> Trim(headMatch.author),
   text |-> IF fileName # <<>> THEN CleanText(Trim(headMatch.body), fileName)
            ELSE Trim(headMatch.body),
   isViewOnce |-> Includes(ToLowerCase(headMatch.body), ViewOnceText),
   mediaUrl |-> IF fileName # <<>> THEN ResolveUrl(assetMap, fileName) ELSE NoUrl]

\* a push that drops a message equal to the open one
StartRecordDedup(message, st) ==
  IF st.current # 0 /\ st.heap[st.current] = message THEN st
  ELSE [heap |-> Append(st.heap, message),
        current |-> Len(st.heap) + 1,
        messages |-> Append(st.messages, Len(st.heap) + 1)]

\* parsedMessages.push(message); stateTracker.current = message (lines 211-212);
\* st is [heap, current, messages]: the message objects, stateTracker.current as a
\* heap id (0 for null) and parsedMessages as heap ids
StartRecord(message, st) ==
  [heap |-> Append(st.heap, message),
   current |-> Len(st.heap) + 1,
   messages |-> Append(st.messages, Len(st.heap) + 1)]

\* an assignment of whatever the lookup gave
LinkMediaAlways(open, url) == [open EXCEPT !.mediaUrl = url]

\* stateTracker.current after lines 216-217: if (url) stateTracker.current.mediaUrl = url
LinkMedia(open, url) == IF url # NoUrl THEN [open EXCEPT !.mediaUrl = url] ELSE open

\* stateTracker.current after lines 219-225: the cleaned line, if any is left, joins the text
JoinCleaned(open, cleaned) ==
  IF cleaned # <<>>
  THEN [open EXCEPT !.text = @ \o (IF @ # <<>> THEN <<"\n">> ELSE <<>>) \o cleaned]
  ELSE open

\* a continuation branch that extends the first record of the heap
ExtendRecordFirst(line, fileName, assetMap, st) ==
  [st EXCEPT !.heap[1].text = @ \o <<"\n">> \o line]

\* a continuation branch that joins with a space
ExtendRecordSpaceJoin(line, fileName, assetMap, st) ==
  [st EXCEPT !.heap[st.current].text = @ \o <<" ">> \o line]

\* the continuation branch (lines 213-229), taken when stateTracker.current is set
ExtendRecord(line, fileName, assetMap, st) ==
  IF fileName # <<>>
  THEN [st EXCEPT !.heap[st.current] =
          JoinCleaned(LinkMedia(@, ResolveUrl(assetMap, fileName)), CleanText(line, fileName))]
  ELSE [st EXCEPT !.heap[st.current].text = @ \o <<"\n">> \o line]

\* lines 192-229 for a line with its headMatch and fileName
ProcessMatched(line, headMatch, fileName, assetMap, st) ==
  IF headMatch.ok THEN StartRecord(NewMessage(headMatch, fileName, assetMap), st)
  ELSE IF st.current # 0 THEN ExtendRecord(line, fileName, assetMap, st)
  ELSE st

\* a loop body that turns a line without an open record into a record of its own
ProcessLineAdoptOrphan(line, assetMap, st) ==
  IF MatchHeader(line).ok \/ st.current # 0
  THEN ProcessMatched(line, MatchHeader(line), FirstAttachment(line), assetMap, st)
  ELSE StartRecord([timestamp |-> <<>>, sender |-> <<>>, text |-> line,
                    isViewOnce |-> FALSE, mediaUrl |-> NoUrl], st)

\* the body of the while loop for one non-empty trimmed line (lines 188-229)
ProcessLine(line, assetMap, st) ==
  ProcessMatched(line, MatchHeader(line), FirstAttachment(line), assetMap, st)

RECURSIVE ParseLoop(_, _, _, _, _, _)
\* a loop that counts the blank lines too
ParseLineCountBlank(content, line, nextLineBreak, linesProcessed, limit, assetMap, st) ==
  IF line = <<>>
  THEN ParseLoop(content, nextLineBreak + 1, linesProcessed + 1, limit, assetMap, st)
  ELSE ParseLoop(content, nextLineBreak + 1, linesProcessed + 1, limit, assetMap,
                 ProcessLine(line, assetMap, st))

\* the loop from the line that ends at nextLineBreak on (lines 185-230)
ParseLine(content, line, nextLineBreak, linesProcessed, limit, assetMap, st) ==
  IF line = <<>>
  THEN ParseLoop(content, nextLineBreak + 1, linesProcessed, limit, assetMap, st)
  ELSE ParseLoop(content, nextLineBreak + 1, linesProcessed + 1, limit, assetMap,
                 ProcessLine(line, assetMap, st))

\* the loop from the cut of the line at currentPointer on (lines 182-230)
CutLine(content, currentPointer, nextLineBreak, linesProcessed, limit, assetMap, st) ==
  ParseLine(content, Trim(Substring(content, currentPointer, nextLineBreak)),
            nextLineBreak, linesProcessed, limit, assetMap, st)

\* content.indexOf('\n', currentPointer), totalLength when it is -1 (lines 179-180)
NextLineBreak(content, currentPointer) ==
  First({i \in currentPointer..(Len(content) - 1) : content[i + 1] = "\n"}, Len(content))

\* the while loop of lines 178-230
ParseLoop(content, currentPointer, linesProcessed, limit, assetMap, st) ==
  IF ~(currentPointer < Len(content) /\ linesProcessed < limit)
  THEN [nextCharIndex |-> currentPointer,
        messages |-> st.messages,
        heap |-> st.heap,
        current |-> st.current]
  ELSE CutLine(content, currentPointer, NextLineBreak(content, currentPointer),
               linesProcessed, limit, assetMap, st)

\* a call that forgets the open record of the previous call
parseWhatsAppStringChunkForgetful(content, offset, limit, assetMap, heap, current) ==
  ParseLoop(content, offset, 0, limit, assetMap,
            [heap |-> heap, current |-> 0, messages |-> <<>>])

\* parseWhatsAppStringChunk(content, offset, limit, assetMap, stateTracker) over the
\* heap: [nextCharIndex, messages] and the heap and stateTracker.current it leaves
parseWhatsAppStringChunk(content, offset, limit, assetMap, heap, current) ==
  ParseLoop(content, offset, 0, limit, assetMap,
            [heap |-> heap, current |-> current, messages |-> <<>>])

\* the records a list of heap ids stands for
Deref(heap, ids) == [i \in 1..Len(ids) |-> heap[ids[i]]]

(***************************************************************************)
(* Inputs of the parser: transcripts of at most MaxLines sample lines      *)
(* joined by "\n", and the filename tables it is called with.              *)
(***************************************************************************)
MaxLines == 3

MaxBudget == 3

RECURSIVE JoinLines(_)
\* lines.join("\n")
JoinLines(lines) ==
  IF lines = <<>> THEN <<>>
  ELSE IF Len(lines) = 1 THEN lines[1]
  ELSE lines[1] \o <<"\n">> \o JoinLines(Tail(lines))

LineSequences == UNION {[1..n -> SampleLines] : n \in 0..MaxLines}

ImgLower == <<"i", "m", "g", "_", "0", "0", "1", ".", "j", "p", "g">>

ImgMixed == <<"I", "M", "G", "_", "0", "0", "1", ".", "j", "p", "g">>

\* a bundle's table: one entry, IMG_001.jpg, under its verbatim and lowercased basename
BundleTable == (ImgMixed :> <<1, 1>>) @@ (ImgLower :> <<1, 1>>)

\* new Map(): the table of a plain text file
EmptyTable == [k \in {} |-> NoUrl]

AssetTables == {EmptyTable, BundleTable}

BATCH_SIZE == 500

VARIABLES
  heap,                 \* the ChatMessage objects allocated so far
  lastMessageRef,       \* stateTracker.current / lastMessageRef.current: a heap id, 0 for null
  accumulatedRef,       \* accumulatedRef.current: the concatenated message lists, as heap ids
  content,              \* the transcript of the parser runs of SpecParse
  assetTable,           \* the assetMap of the parser runs of SpecParse
  cursor,               \* the nextCharIndex the last parser call of SpecParse returned
  state,                \* the ChatState of App: [rawText, messages, loading, error, stats]
  isBackgroundLoading,  \* the isBackgroundLoading state of App
  meSender,             \* the meSender state of App: <<>> for null, <<name>> otherwise
  displayLimit,         \* the displayLimit state of App
  dateRange,            \* the dateRange state of App
  abortControllerRef,   \* abortControllerRef.current: a controller id, 0 for null
  aborted,              \* the controllers whose signal is aborted
  calls,                \* the invocations of handleFileUpload that got a file, in order
  cache,                \* the object store of the cache: cache key -> stored messages
  owner,                \* for each heap id, the invocation that allocated the object
  unit,                 \* the parseWhatsAppStringChunk calls of the task that ran last
  reloadedAt,           \* for each reload of the page, the number of invocations before it
  archive,              \* the entries of the bundle given to extractChatAndMediaFromZip
  zipResult,            \* <<>> or <<r>>, r the outcome of the extraction of archive
  dateStr,              \* the date part of a timestamp given to formatFullDate
  thisYear,             \* new Date().getFullYear() when formatFullDate runs
  fullDate,             \* <<>> or <<t>>, t the text formatFullDate returned for dateStr
  msgDate               \* <<>> or <<d>>, d the date parseComparableDate returned for dateStr

parserVars == <<heap, lastMessageRef, accumulatedRef, content, assetTable, cursor>>

driverVars ==
  <<state, isBackgroundLoading, meSender, displayLimit, dateRange, abortControllerRef, aborted,
    calls, cache, owner, unit, reloadedAt>>

\* the inputs and results of the functions that SpecBundle and SpecDate apply
inputVars == <<archive, zipResult, dateStr, thisYear, fullDate, msgDate>>

vars == <<parserVars, driverVars, inputVars>>

\* the state of App before the first event (App.tsx:10-33), with an empty cache
InitDriver ==
  /\ state = [rawText |-> <<>>, messages |-> <<>>, loading |-> FALSE, error |-> <<>>,
              stats |-> <<>>]
  /\ isBackgroundLoading = FALSE
  /\ meSender = <<>>
  /\ displayLimit = BATCH_SIZE
  /\ dateRange = [from |-> <<>>, to |-> <<>>]
  /\ abortControllerRef = 0
  /\ aborted = {}
  /\ calls = <<>>
  /\ cache = [k \in {} |-> <<>>]
  /\ owner = <<>>
  /\ unit = <<>>
  /\ reloadedAt = <<>>

\* no bundle is under extraction
NoBundle ==
  /\ archive = <<>>
  /\ zipResult = <<>>

\* no date is under formatting
NoDate ==
  /\ dateStr = <<>>
  /\ thisYear = 0
  /\ fullDate = <<>>
  /\ msgDate = <<>>

(***************************************************************************)
(* SpecParse: a caller that drives parseWhatsAppStringChunk over one       *)
(* transcript from offset 0 with an empty stateTracker, each call with a   *)
(* line budget of its choice, and concatenates the returned lists.         *)
(***************************************************************************)
InitParse ==
  /\ heap = <<>>
  /\ lastMessageRef = 0
  /\ accumulatedRef = <<>>
  /\ content \in {JoinLines(ls) : ls \in LineSequences}
  /\ assetTable \in AssetTables
  /\ cursor = 0
  /\ InitDriver
  /\ NoBundle
  /\ NoDate

\* one call with the given limit, resumed at the returned nextCharIndex
CallWithLimit(limit) ==
  \E r \in {parseWhatsAppStringChunk(content, cursor, limit, assetTable, heap, lastMessageRef)} :
    /\ heap' = r.heap
    /\ lastMessageRef' = r.current
    /\ accumulatedRef' = accumulatedRef \o r.messages
    /\ cursor' = r.nextCharIndex
    /\ UNCHANGED <<content, assetTable, driverVars, inputVars>>

\* a call with a positive line budget
Advance ==
  /\ cursor < Len(content)
  /\ \E limit \in 1..MaxBudget : CallWithLimit(limit)

\* a limit no transcript reaches: every line holds at least one character or ends in "\n"
Unbounded(text) == Len(text) + 1

\* a call with an unbounded budget
AdvanceAll ==
  /\ cursor < Len(content)
  /\ CallWithLimit(Unbounded(content))

NextParse == Advance \/ AdvanceAll

SpecParse == InitParse /\ [][NextParse]_vars

\* the records of a single call over the whole transcript from an empty stateTracker
SingleCall(text, table) ==
  LET r == parseWhatsAppStringChunk(text, 0, Unbounded(text), table, <<>>, 0)
  IN Deref(r.heap, r.messages)

\* C1: when the chunked calls have consumed the transcript, the concatenated lists
\* hold the same records, in the same order, as a single unbounded call over it
ChunkInvariance ==
  cursor >= Len(content) => Deref(heap, accumulatedRef) = SingleCall(content, assetTable)

\* a transcript whose continuation line fell into a later call than its header
ChunkInvarianceWitness ==
  /\ content = JoinLines(<<HelloHeader, HowAreYou, BobAttachment>>)
  /\ cursor >= Len(content)
  /\ Len(accumulatedRef) = 2
  /\ heap[accumulatedRef[1]].text # Trim(MatchHeader(HelloHeader).body)

(***************************************************************************)
(* The transcript read line by line, independently of the parser's loop.   *)
(***************************************************************************)
RECURSIVE SplitLines(_)
\* text.split("\n")
SplitLines(text) ==
  LET i == IndexOf(text, "\n", 0)
  IN IF i = -1 THEN <<text>>
     ELSE <<Substring(text, 0, i)>> \o SplitLines(Substring(text, i + 1, Len(text)))

IsNonBlank(line) == line # <<>>

IsHeaderLine(line) == MatchHeader(line).ok

HasNoFilename(line) == FirstAttachment(line) = <<>>

\* the trimmed non-empty lines of text, in file order
NonBlankLines(text) ==
  LET raw == SplitLines(text)
  IN SelectSeq([i \in 1..Len(raw) |-> Trim(raw[i])], IsNonBlank)

\* the lines the calls so far have consumed
ConsumedLines ==
  NonBlankLines(Substring(content, 0, IF cursor > Len(content) THEN Len(content) ELSE cursor))

\* C7: the accumulated list holds one record per consumed header line, the i-th
\* built from the i-th header line in file order, none dropped, merged or repeated
FileOrder ==
  LET headers == SelectSeq(ConsumedLines, IsHeaderLine)
  IN /\ Len(accumulatedRef) = Len(headers)
     /\ \A i, j \in 1..Len(accumulatedRef) : i # j => accumulatedRef[i] # accumulatedRef[j]
     /\ \A i \in 1..Len(headers) :
          LET m == MatchHeader(headers[i])
              r == heap[accumulatedRef[i]]
          IN /\ r.timestamp = Trim(m.timestamp)
             /\ r.sender = Trim(m.author)
             /\ HasNoFilename(headers[i]) =>
                  SubSeq(r.text, 1, Len(Trim(m.body))) = Trim(m.body)

\* two identical header lines in a row have yielded two records
FileOrderWitness ==
  /\ content = JoinLines(<<HelloHeader, HelloHeader, HowAreYou>>)
  /\ cursor >= Len(content)
  /\ Len(accumulatedRef) = 2
  /\ heap[accumulatedRef[1]].sender = heap[accumulatedRef[2]].sender

RECURSIVE AppendEach(_, _)
\* text followed by each line, each preceded by a newline
AppendEach(text, lines) ==
  IF lines = <<>> THEN text
  ELSE AppendEach(text \o <<"\n">> \o lines[1], Tail(lines))

\* the body a header line gives its record: the captured body, trimmed, and with the
\* markers and the filename stripped when the line names an attachment
HeaderBody(line) ==
  LET m == MatchHeader(line)
  IN IF HasNoFilename(line) THEN Trim(m.body)
     ELSE CleanText(Trim(m.body), FirstAttachment(line))

\* the 1-based positions in lines of the continuation lines of the header at p
ContinuationsOf(lines, p) ==
  {q \in (p + 1)..Len(lines) : \A k \in (p + 1)..q : ~IsHeaderLine(lines[k])}

\* C8: a header line followed by k >= 1 filename-free continuation lines has yielded
\* one record with the header's sender and timestamp, whose text is the header's
\* body followed by each continuation line in order, each preceded by a newline
ContinuationConcatenation ==
  LET lines == ConsumedLines
  IN \A p \in 1..Len(lines) :
       LET conts == ContinuationsOf(lines, p)
           r == Len(SelectSeq(SubSeq(lines, 1, p), IsHeaderLine))
       IN (/\ IsHeaderLine(lines[p])
           /\ conts # {}
           /\ \A q \in conts : HasNoFilename(lines[q]))
          => /\ r <= Len(accumulatedRef)
             /\ heap[accumulatedRef[r]].sender = Trim(MatchHeader(lines[p]).author)
             /\ heap[accumulatedRef[r]].timestamp = Trim(MatchHeader(lines[p]).timestamp)
             /\ heap[accumulatedRef[r]].text =
                  AppendEach(HeaderBody(lines[p]), SubSeq(lines, p + 1, p + Cardinality(conts)))

\* the example of the specification: "Hello" continued by "How are you?"
ContinuationConcatenationWitness ==
  /\ content = JoinLines(<<HelloHeader, HowAreYou>>)
  /\ cursor >= Len(content)
  /\ Len(accumulatedRef) = 1
  /\ heap[accumulatedRef[1]].sender = <<"A", "l", "i", "c", "e">>
  /\ heap[accumulatedRef[1]].text =
       <<"H", "e", "l", "l", "o", "\n", "H", "o", "w", " ", "a", "r", "e", " ", "y", "o", "u", "?">>

\* the transcript without the lines that precede its first header line
DropLeadingOrphans(text) ==
  LET raw == SplitLines(text)
      heads == {i \in 1..Len(raw) : IsHeaderLine(Trim(raw[i]))}
  IN IF heads = {} THEN <<>> ELSE JoinLines(SubSeq(raw, First(heads, 1), Len(raw)))

\* C9: non-header lines consumed while stateTracker is empty leave no record, change
\* nothing and leave stateTracker empty, and the records of the whole transcript are
\* those of the transcript without these lines
OrphanDrop ==
  /\ SelectSeq(ConsumedLines, IsHeaderLine) = <<>> =>
       /\ heap = <<>>
       /\ accumulatedRef = <<>>
       /\ lastMessageRef = 0
  /\ cursor >= Len(content) =>
       Deref(heap, accumulatedRef) = SingleCall(DropLeadingOrphans(content), assetTable)

\* an orphan line was consumed and a header after it made a record
OrphanDropWitness ==
  /\ content = JoinLines(<<HowAreYou, HelloHeader>>)
  /\ cursor >= Len(content)
  /\ Len(accumulatedRef) = 1
  /\ heap[accumulatedRef[1]].text = <<"H", "e", "l", "l", "o">>

\* C10: every record has a non-empty sender and a non-empty timestamp
SenderAndTimestampNonEmpty ==
  \A id \in DOMAIN heap : heap[id].sender # <<>> /\ heap[id].timestamp # <<>>

(***************************************************************************)
(* SpecMedia: the caller of SpecParse over transcripts of lines that carry *)
(* the view-once marker and attachment names, with tables that resolve     *)
(* none, one or two of the names.                                          *)
(***************************************************************************)
\* a header whose body holds the marker in a bracketed annotation and names an image:
\* '1/2/23, 10:03 - Bob: [View Once] IMG_001.jpg'
ViewOnceHeader ==
  <<"1", "/", "2", "/", "2", "3", ",", " ", "1", "0", ":", "0", "3", " ", "-", " ", "B",
    "o", "b", ":", " ", "[", "V", "i", "e", "w", " ", "O", "n", "c", "e", "]", " ", "I",
    "M", "G", "_", "0", "0", "1", ".", "j", "p", "g">>

\* a header that holds the marker in its author only: '1/2/23, 10:04 - View Once: hi'
ViewOnceAuthor ==
  <<"1", "/", "2", "/", "2", "3", ",", " ", "1", "0", ":", "0", "4", " ", "-", " ", "V",
    "i", "e", "w", " ", "O", "n", "c", "e", ":", " ", "h", "i">>

\* a continuation line that holds the marker: 'VIEW ONCE photo'
ViewOnceNote ==
  <<"V", "I", "E", "W", " ", "O", "N", "C", "E", " ", "p", "h", "o", "t", "o">>

\* the lines the transcripts of SpecMedia are built from
MediaLines == {ViewOnceHeader, ViewOnceAuthor, ViewOnceNote, AttachedUpper, SeeNotes}

MediaLineSequences == UNION {[1..n -> MediaLines] : n \in 0..MaxLines}

NotesPdf == <<"n", "o", "t", "e", "s", ".", "p", "d", "f">>

\* the table of a bundle that holds IMG_001.jpg and notes.pdf
NotesTable == (NotesPdf :> <<1, 2>>) @@ BundleTable

MediaTables == {EmptyTable, BundleTable, NotesTable}

InitMedia ==
  /\ heap = <<>>
  /\ lastMessageRef = 0
  /\ accumulatedRef = <<>>
  /\ content \in {JoinLines(ls) : ls \in MediaLineSequences}
  /\ assetTable \in MediaTables
  /\ cursor = 0
  /\ InitDriver
  /\ NoBundle
  /\ NoDate

SpecMedia == InitMedia /\ [][NextParse]_vars

\* whether s holds "view once" in some letter casing
HoldsViewOnce(s) == \E i \in 1..Len(s) : MatchesAtIgnoreCase(s, i, ViewOnceText)

\* C11: the record of each consumed header line has isViewOnce set exactly when the
\* body the header pattern captured from the line holds "view once" in some letter
\* casing, whatever was stripped from the text and whatever lines continued it
EphemeralFlag ==
  LET headers == SelectSeq(ConsumedLines, IsHeaderLine)
  IN /\ Len(accumulatedRef) = Len(headers)
     /\ \A i \in 1..Len(headers) :
          heap[accumulatedRef[i]].isViewOnce = HoldsViewOnce(MatchHeader(headers[i]).body)

\* the marker was stripped from the text of a flagged record, and a continuation line
\* that holds the marker has joined a record that is not flagged
EphemeralFlagWitness ==
  /\ content = JoinLines(<<ViewOnceHeader, ViewOnceAuthor, ViewOnceNote>>)
  /\ cursor >= Len(content)
  /\ Len(accumulatedRef) = 2
  /\ heap[accumulatedRef[1]].isViewOnce
  /\ ~HoldsViewOnce(heap[accumulatedRef[1]].text)
  /\ ~heap[accumulatedRef[2]].isViewOnce
  /\ HoldsViewOnce(heap[accumulatedRef[2]].text)

\* C18: a call never leaves a record that had a mediaUrl without one
MediaUrlMonotone ==
  [][\A id \in DOMAIN heap : heap[id].mediaUrl # NoUrl => heap'[id].mediaUrl # NoUrl]_vars

\* a record that got its mediaUrl from its header line has been continued by a line
\* naming a file the table lacks, and has kept it
MediaUrlMonotoneWitness ==
  /\ content = JoinLines(<<ViewOnceHeader, SeeNotes>>)
  /\ assetTable = BundleTable
  /\ cursor >= Len(content)
  /\ Len(accumulatedRef) = 1
  /\ heap[accumulatedRef[1]].mediaUrl = <<1, 1>>
  /\ heap[accumulatedRef[1]].text = <<"s", "e", "e", " ", " ", "n", "o", "w">>

\* C20: a call never changes the mediaUrl of a record that had one
MediaUrlSetOnce ==
  [][\A id \in DOMAIN heap :
       heap[id].mediaUrl # NoUrl => heap'[id].mediaUrl = heap[id].mediaUrl]_vars

(***************************************************************************)
(* formatFullDate (MessageBubble.tsx:16-54).  A number is an integer, NaN  *)
(* a value of its own that no comparison holds for and that arithmetic     *)
(* keeps.  The parts of a date hold no sign and no "0x", so parseInt reads *)
(* decimal digits only.                                                    *)
(***************************************************************************)
NaN == 0 - 2

DigitChars == <<"0", "1", "2", "3", "4", "5", "6", "7", "8", "9">>

DigitValue(c) == (CHOOSE d \in 1..10 : DigitChars[d] = c) - 1

RECURSIVE NumberOf(_)
\* the number that a run of decimal digits denotes
NumberOf(digits) ==
  IF digits = <<>> THEN 0
  ELSE NumberOf(SubSeq(digits, 1, Len(digits) - 1)) * 10 + DigitValue(digits[Len(digits)])

\* the digits of parseInt(s) from 1-based index i on, NaN when there is none
ParseDigits(s, i) ==
  IF RunLength(s, i, Digits) = 0 THEN NaN
  ELSE NumberOf(SubSeq(s, i, i + RunLength(s, i, Digits) - 1))

\* parseInt(s): leading white space is skipped, what follows the digits is ignored
ParseInt(s) == ParseDigits(s, 1 + RunLength(s, 1, Whitespace))

RECURSIVE NumberToString(_)
\* String(n) for an integer n >= 0
NumberToString(n) ==
  IF n < 10 THEN <<DigitChars[n + 1]>>
  ELSE NumberToString(n \div 10) \o <<DigitChars[(n % 10) + 1]>>

\* `${x}` for a number
NumberText(x) == IF x = NaN THEN <<"N", "a", "N">> ELSE NumberToString(x)

RECURSIVE SplitOn(_, _)
\* s.split(/[class]/)
SplitOn(s, class) ==
  IF First({k \in 1..Len(s) : s[k] \in class}, 0) = 0 THEN <<s>>
  ELSE <<SubSeq(s, 1, First({k \in 1..Len(s) : s[k] \in class}, 0) - 1)>>
         \o SplitOn(SubSeq(s, First({k \in 1..Len(s) : s[k] \in class}, 0) + 1, Len(s)), class)

\* dateStr.split(/[\/\.\-]/).map(p => p.trim()) (line 19)
DateParts(s) == [i \in 1..Len(SplitOn(s, DateSeparators)) |-> Trim(SplitOn(s, DateSeparators)[i])]

\* x > 12, false for NaN
Above12(x) == x # NaN /\ x > 12

\* x - 1, NaN for NaN
Pred(x) == IF x = NaN THEN NaN ELSE x - 1

\* a reading that always takes the first token for the day
DayFirstAlways(p0, p1) == [day |-> p0, monthIdx |-> Pred(p1)]

\* the detection of lines 27-38
DayAndMonth(p0, p1) ==
  IF Above12(p0) THEN [day |-> p0, monthIdx |-> Pred(p1)]
  ELSE IF Above12(p1) THEN [day |-> p1, monthIdx |-> Pred(p0)]
  ELSE [day |-> p0, monthIdx |-> Pred(p1)]

\* year += 2000 under year < 100 (line 42)
WithCentury(year) == IF year # NaN /\ year < 100 THEN year + 2000 ELSE year

\* lines 40-45
YearOf(parts, now) ==
  IF Len(parts) >= 3 /\ parts[3] # <<>> THEN WithCentury(ParseInt(parts[3])) ELSE now

Months ==
  << <<"J", "a", "n", "u", "a", "r", "y">>,
     <<"F", "e", "b", "r", "u", "a", "r", "y">>,
     <<"M", "a", "r", "c", "h">>,
     <<"A", "p", "r", "i", "l">>,
     <<"M", "a", "y">>,
     <<"J", "u", "n", "e">>,
     <<"J", "u", "l", "y">>,
     <<"A", "u", "g", "u", "s", "t">>,
     <<"S", "e", "p", "t", "e", "m", "b", "e", "r">>,
     <<"O", "c", "t", "o", "b", "e", "r">>,
     <<"N", "o", "v", "e", "m", "b", "e", "r">>,
     <<"D", "e", "c", "e", "m", "b", "e", "r">> >>

\* months[monthIdx] || parts[1] (line 52)
MonthName(monthIdx, parts) ==
  IF monthIdx \in 0..11 THEN Months[monthIdx + 1] ELSE parts[2]

\* `${day} ${monthName} ${year}` (line 53)
RenderDate(dm, parts, year) ==
  NumberText(dm.day) \o <<" ">> \o MonthName(dm.monthIdx, parts) \o <<" ">> \o NumberText(year)

\* lines 20-53 for the parts of dateStr
FormatParts(s, parts, now) ==
  IF Len(parts) < 2 THEN s
  ELSE RenderDate(DayAndMonth(ParseInt(parts[1]), ParseInt(parts[2])), parts,
                  YearOf(parts, now))

\* formatFullDate(dateStr) in the year now
formatFullDate(s, now) == IF s = <<>> THEN <<>> ELSE FormatParts(s, DateParts(s), now)

(***************************************************************************)
(* parseComparableDate (App.tsx:88-101).  A Date is the record of its      *)
(* local calendar fields [year, month, day], month counted from 0, or one  *)
(* of two values of their own: the instant 0 and the invalid date.         *)
(***************************************************************************)
\* new Date(0)
DateZero == [time |-> 0]

\* new Date(NaN, ...)
InvalidDate == [time |-> NaN]

IsLeapYear(year) == year % 4 = 0 /\ (year % 100 # 0 \/ year % 400 = 0)

\* the number of days of the month of index month in 0..11
DaysInMonth(year, month) ==
  IF month = 1 THEN (IF IsLeapYear(year) THEN 29 ELSE 28)
  ELSE IF month \in {3, 5, 8, 10} THEN 30
  ELSE 31

RECURSIVE CarryDays(_, _, _)
\* the date of day number day of the month of index month in 0..11 of year, for a day
\* of any size: days past the end of the month are days of the months that follow,
\* day 0 and below are days of the months before
CarryDays(year, month, day) ==
  IF day > DaysInMonth(year, month)
  THEN CarryDays(IF month = 11 THEN year + 1 ELSE year, (month + 1) % 12,
                 day - DaysInMonth(year, month))
  ELSE IF day < 1
  THEN CarryDays(IF month = 0 THEN year - 1 ELSE year, (month + 11) % 12,
                 day + DaysInMonth(IF month = 0 THEN year - 1 ELSE year, (month + 11) % 12))
  ELSE [year |-> year, month |-> month, day |-> day]

\* new Date(year, month, day): a year of 0..99 is a year of the 1900s, the months past
\* December and before January are months of other years
MakeDate(year, month, day) ==
  IF NaN \in {year, month, day} THEN InvalidDate
  ELSE CarryDays((IF year \in 0..99 THEN 1900 + year ELSE year) + ((month - (month % 12)) \div 12),
                 month % 12, day)

\* a date filter that never takes the second token for the day
SwapNever(day, month) == [day |-> day, month |-> month]

\* lines 95-99: the swap under month > 11
SwapDayAndMonth(day, month) ==
  IF month # NaN /\ month > 11 THEN [day |-> month + 1, month |-> Pred(day)]
  ELSE [day |-> day, month |-> month]

\* lines 91-100 for the parts of dateStr
ComparableParts(parts) ==
  MakeDate(WithCentury(ParseInt(parts[3])),
           SwapDayAndMonth(ParseInt(parts[1]), Pred(ParseInt(parts[2]))).month,
           SwapDayAndMonth(ParseInt(parts[1]), Pred(ParseInt(parts[2]))).day)

\* parseComparableDate(dateStr)
parseComparableDate(s) ==
  IF Len(SplitOn(s, DateSeparators)) < 3 THEN DateZero
  ELSE ComparableParts(SplitOn(s, DateSeparators))

(***************************************************************************)
(* SpecDate: formatFullDate and parseComparableDate applied to dates of    *)
(* two numeric tokens, a separator and a year of two or four digits or     *)
(* none, written with or without a leading zero, and to a date of one      *)
(* token and the empty date.                                               *)
(***************************************************************************)
\* the numbers the leading tokens are written from
TokenValues == {2, 5, 6, 12, 13, 26, 29, 31}

\* the years written in a date; 0 for a date without a year
YearValues == {0, 23, 2023, 2024}

\* n written in decimal, with a leading zero if padded and n < 10
Written(n, padded) == IF padded /\ n < 10 THEN <<"0">> \o NumberToString(n) ELSE NumberToString(n)

\* the date of tokens a and b and year y
DateText(a, b, sep, y, padded) ==
  Written(a, padded) \o <<sep>> \o Written(b, padded)
    \o (IF y = 0 THEN <<>> ELSE <<sep>> \o NumberToString(y))

DateTexts ==
  {DateText(a, b, sep, y, padded) :
     a \in TokenValues, b \in TokenValues, sep \in DateSeparators, y \in YearValues,
     padded \in BOOLEAN}
    \cup {<<>>, <<"5">>}

InitDate ==
  /\ heap = <<>>
  /\ lastMessageRef = 0
  /\ accumulatedRef = <<>>
  /\ content = <<>>
  /\ assetTable = EmptyTable
  /\ cursor = 0
  /\ InitDriver
  /\ NoBundle
  /\ dateStr \in DateTexts
  /\ thisYear \in {2025, 2026}
  /\ fullDate = <<>>
  /\ msgDate = <<>>

\* the bubble renders its timestamp
FormatDate ==
  /\ fullDate = <<>>
  /\ fullDate' = <<formatFullDate(dateStr, thisYear)>>
  /\ UNCHANGED <<parserVars, driverVars, archive, zipResult, dateStr, thisYear, msgDate>>

\* the date-range filter reads the date of the message (App.tsx:117)
FilterDate ==
  /\ msgDate = <<>>
  /\ msgDate' = <<parseComparableDate(dateStr)>>
  /\ UNCHANGED <<parserVars, driverVars, archive, zipResult, dateStr, thisYear, fullDate>>

NextDate == FormatDate \/ FilterDate

SpecDate == InitDate /\ [][NextDate]_vars

\* the day and the month index the rule of the claim gives tokens a and b
RuleDay(a, b) == IF a > 12 THEN a ELSE IF b > 12 THEN b ELSE a

RuleMonthIdx(a, b) == IF a > 12 THEN b - 1 ELSE IF b > 12 THEN a - 1 ELSE b - 1

\* the year shown for a written year y
RuleYear(y, now) == IF y = 0 THEN now ELSE IF y < 100 THEN y + 2000 ELSE y

\* C13: the date of leading tokens a and b is rendered with the day and the month the
\* rule gives: a > 12 makes a the day and b the month, else b > 12 makes b the day and
\* a the month, else a is the day and b the month; 13/5 and 5/13 are both 13 May, 5/6
\* is 5 June and "5/26/23" is rendered "26 May 2023"
DateDisambiguation ==
  /\ \A a, b \in TokenValues, sep \in DateSeparators, y \in YearValues, padded \in BOOLEAN :
       (fullDate # <<>> /\ dateStr = DateText(a, b, sep, y, padded)) =>
         /\ RuleMonthIdx(a, b) \in 0..11 =>
              fullDate[1] = NumberToString(RuleDay(a, b)) \o <<" ">>
                              \o Months[RuleMonthIdx(a, b) + 1] \o <<" ">>
                              \o NumberToString(RuleYear(y, thisYear))
         /\ SubSeq(fullDate[1], 1, Len(NumberToString(RuleDay(a, b))))
              = NumberToString(RuleDay(a, b))
  /\ (fullDate # <<>> /\ dateStr = <<"5", "/", "2", "6", "/", "2", "3">>) =>
       fullDate[1] = <<"2", "6", " ", "M", "a", "y", " ", "2", "0", "2", "3">>
  /\ (fullDate # <<>> /\ dateStr \in {<<"1", "3", "/", "5">>, <<"5", "/", "1", "3">>}) =>
       fullDate[1] = <<"1", "3", " ", "M", "a", "y", " ">> \o NumberToString(thisYear)
  /\ (fullDate # <<>> /\ dateStr = <<"5", "/", "6">>) =>
       fullDate[1] = <<"5", " ", "J", "u", "n", "e", " ">> \o NumberToString(thisYear)

\* the month-first date of the README has been rendered day-first
DateDisambiguationWitness ==
  /\ dateStr = <<"5", "/", "2", "6", "/", "2", "3">>
  /\ fullDate = << <<"2", "6", " ", "M", "a", "y", " ", "2", "0", "2", "3">> >>

(***************************************************************************)
(* extractChatAndMediaFromZip (db.ts:238-269).  A bundle is the sequence   *)
(* of its entries in archive order, each [name, dir, text, readable]: text *)
(* is the entry read as a string, readable whether entry.async("blob")     *)
(* succeeds.  A locator made by URL.createObjectURL is <<k, i>>: the       *)
(* extraction that made it and the position of its entry.                  *)
(***************************************************************************)
\* String.prototype.endsWith
EndsWith(s, suffix) == MatchesAt(s, Len(s) - Len(suffix) + 1, suffix)

DotTxt == <<".", "t", "x", "t">>

ChatTxt == <<"_", "c", "h", "a", "t", ".", "t", "x", "t">>

ChatWord == <<"c", "h", "a", "t">>

\* /\.(jpg|...|txt)$/i.test(name)
HasMediaExtension(name) ==
  \E e \in DOMAIN AttachmentExtensions :
    /\ MatchesAtIgnoreCase(name, Len(name) - Len(AttachmentExtensions[e]) + 1, AttachmentExtensions[e])
    /\ MatchesAt(name, Len(name) - Len(AttachmentExtensions[e]), <<".">>)

\* entry.name.split(/[\\/]/).pop() || entry.name
BaseName(name) ==
  IF Last({i \in 1..Len(name) : name[i] \in {"/", "\\"}}, 0) = Len(name) THEN name
  ELSE SubSeq(name, Last({i \in 1..Len(name) : name[i] \in {"/", "\\"}}, 0) + 1, Len(name))

\* the positions of textEntries: entries.filter(f => f.name.endsWith('.txt') && !f.dir)
TextEntries(entries) ==
  {i \in DOMAIN entries : EndsWith(entries[i].name, DotTxt) /\ ~entries[i].dir}

\* a selection that passes over the names that include 'chat'
ChatEntryLongestFirst(entries) ==
  First({i \in DOMAIN entries : entries[i].name = ChatTxt /\ ~entries[i].dir},
    First({i \in TextEntries(entries) :
             \A j \in TextEntries(entries) : Len(entries[j].name) <= Len(entries[i].name)}, 0))

\* the position of chatFile, 0 when there is none: zip.file("_chat.txt"), or the first
\* text entry whose lowercased name includes 'chat', or the first of the text entries
\* with the longest name (the sort is stable)
ChatEntry(entries) ==
  First({i \in DOMAIN entries : entries[i].name = ChatTxt /\ ~entries[i].dir},
    First({i \in TextEntries(entries) : Includes(ToLowerCase(entries[i].name), ChatWord)},
      First({i \in TextEntries(entries) :
               \A j \in TextEntries(entries) : Len(entries[j].name) <= Len(entries[i].name)}, 0)))

RECURSIVE MediaMapUntilFailure(_, _, _, _)
\* a loop that the first entry that cannot be read ends
MediaMapUntilFailure(entries, i, k, mediaMap) ==
  IF i > Len(entries) THEN mediaMap
  ELSE IF ~entries[i].dir /\ HasMediaExtension(entries[i].name)
  THEN IF ~entries[i].readable THEN mediaMap
       ELSE MediaMapUntilFailure(entries, i + 1, k,
              (ToLowerCase(BaseName(entries[i].name)) :> <<k, i>>)
                @@ (BaseName(entries[i].name) :> <<k, i>>) @@ mediaMap)
  ELSE MediaMapUntilFailure(entries, i + 1, k, mediaMap)

RECURSIVE MediaMapFrom(_, _, _, _)
\* the table after the loop of lines 255-266 has run from entry i on: an entry that
\* cannot be read is skipped, a later entry overwrites an earlier one's keys
MediaMapFrom(entries, i, k, mediaMap) ==
  IF i > Len(entries) THEN mediaMap
  ELSE IF ~entries[i].dir /\ HasMediaExtension(entries[i].name) /\ entries[i].readable
  THEN MediaMapFrom(entries, i + 1, k,
         (ToLowerCase(BaseName(entries[i].name)) :> <<k, i>>)
           @@ (BaseName(entries[i].name) :> <<k, i>>) @@ mediaMap)
  ELSE MediaMapFrom(entries, i + 1, k, mediaMap)

\* the result of the k-th extraction: [ok, text, mediaMap], ok FALSE for the throw of line 250
extractChatAndMediaFromZip(entries, k) ==
  IF ChatEntry(entries) = 0
  THEN [ok |-> FALSE, text |-> <<>>, mediaMap |-> EmptyTable]
  ELSE [ok |-> TRUE,
        text |-> entries[ChatEntry(entries)].text,
        mediaMap |-> MediaMapFrom(entries, 1, k, EmptyTable)]

(***************************************************************************)
(* SpecBundle: a bundle is extracted and the transcript it gave is parsed  *)
(* with the table it gave, by the caller of SpecParse.  The bundles are    *)
(* built from entries whose transcripts refer to the media entries in      *)
(* several letter casings.                                                 *)
(***************************************************************************)
\* the number of entries of a bundle
MaxEntries == 3

\* a header line whose body is the filename x: '1/2/23, 10:01 - Bob: ' + x
RefHeader(x) ==
  <<"1", "/", "2", "/", "2", "3", ",", " ", "1", "0", ":", "0", "1", " ", "-", " ",
    "B", "o", "b", ":", " ">> \o x

\* a continuation line that names x: '<attached: ' + x + '>'
RefAttached(x) == AttachedOpenText \o <<":", " ">> \o x \o <<">">>

ImgUpper == <<"I", "M", "G", "_", "0", "0", "1", ".", "J", "P", "G">>

ImgCapital == <<"I", "m", "g", "_", "0", "0", "1", ".", "J", "p", "g">>

ReportDocx == <<"r", "e", "p", "o", "r", "t", ".", "d", "o", "c", "x">>

ReportDocxUpper == <<"R", "e", "p", "o", "r", "t", ".", "D", "O", "C", "X">>

BadPng == <<"b", "a", "d", ".", "p", "n", "g">>

\* the names the transcripts refer to
RefNames == {ImgLower, ImgUpper, ImgCapital, ReportDocx, ReportDocxUpper, BadPng}

\* the entries bundles are made of: four transcripts, of which one has the canonical
\* name, one has "chat" in its name and two have neither, and four media entries, of
\* which two differ in letter casing and directory only and one cannot be read
EntryPool ==
  { [name |-> ChatTxt, dir |-> FALSE, readable |-> TRUE,
     text |-> JoinLines(<<RefHeader(ImgLower), RefAttached(ImgUpper)>>)],
    [name |-> <<"C", "h", "a", "t", ".", "t", "x", "t">>, dir |-> FALSE,
     readable |-> TRUE,
     text |-> JoinLines(<<RefHeader(ImgCapital), RefHeader(ReportDocxUpper)>>)],
    [name |-> <<"l", "o", "g", ".", "t", "x", "t">>, dir |-> FALSE, readable |-> TRUE,
     text |-> JoinLines(<<RefHeader(BadPng), RefAttached(ReportDocx)>>)],
    [name |-> <<"n", "o", "t", "e", "s", "2", ".", "t", "x", "t">>, dir |-> FALSE,
     readable |-> TRUE,
     text |-> RefHeader(ImgUpper)],
    [name |-> <<"m", "/">> \o ImgUpper, dir |-> FALSE, readable |-> TRUE, text |-> <<>>],
    [name |-> ImgLower, dir |-> FALSE, readable |-> TRUE, text |-> <<>>],
    [name |-> ReportDocx, dir |-> FALSE, readable |-> TRUE, text |-> <<>>],
    [name |-> BadPng, dir |-> FALSE, readable |-> FALSE, text |-> <<>>] }

\* the bundles: entries of distinct names in any archive order
Bundles ==
  UNION {{b \in [1..n -> EntryPool] : \A i, j \in 1..n : b[i] = b[j] => i = j} :
           n \in 0..MaxEntries}

InitBundle ==
  /\ heap = <<>>
  /\ lastMessageRef = 0
  /\ accumulatedRef = <<>>
  /\ content = <<>>
  /\ assetTable = EmptyTable
  /\ cursor = 0
  /\ InitDriver
  /\ archive \in Bundles
  /\ zipResult = <<>>
  /\ NoDate

\* extractChatAndMediaFromZip settles: the caller keeps its text and its table
Extract ==
  /\ zipResult = <<>>
  /\ \E r \in {extractChatAndMediaFromZip(archive, 1)} :
       /\ zipResult' = <<r>>
       /\ content' = r.text
       /\ assetTable' = r.mediaMap
  /\ UNCHANGED <<heap, lastMessageRef, accumulatedRef, cursor, driverVars, archive, dateStr,
                 thisYear, fullDate, msgDate>>

NextBundle == Extract \/ NextParse

SpecBundle == InitBundle /\ [][NextBundle]_vars

\* entry e of the bundle is registered by the loop of lines 255-266
Registered(entries, e) ==
  ~entries[e].dir /\ HasMediaExtension(entries[e].name) /\ entries[e].readable

\* the last consumed line names x, as a header's body or as an attachment
LastLineNames(x) ==
  /\ ConsumedLines # <<>>
  /\ ConsumedLines[Len(ConsumedLines)] \in {RefHeader(x), RefAttached(x)}

\* the name x is the basename of entry e up to letter casing
SameUpToCasing(x, entries, e) == ToLowerCase(x) = ToLowerCase(BaseName(entries[e].name))

TextsAt(S) == {archive[i].text : i \in S}

\* the entries named exactly '_chat.txt'
CanonicalNamed == {i \in DOMAIN archive : archive[i].name = ChatTxt}

\* the text entries: the files whose name ends in '.txt'
TextNamed == {i \in DOMAIN archive : ~archive[i].dir /\ EndsWith(archive[i].name, DotTxt)}

\* the text entries whose name contains 'chat' in any letter casing
ChatNamed == {i \in TextNamed : Includes(ToLowerCase(archive[i].name), ChatWord)}

\* the text entries no text entry has a longer name than
LongestNamed ==
  {i \in TextNamed : \A j \in TextNamed : Len(archive[j].name) <= Len(archive[i].name)}

\* C16: the extraction returns the text of the entry named '_chat.txt' if there is
\* one, else of a text entry whose name contains 'chat', else of a text entry with the
\* longest name, and fails exactly when the bundle has none of these
TranscriptPriority ==
  zipResult # <<>> =>
    /\ zipResult[1].ok <=> CanonicalNamed \cup TextNamed # {}
    /\ zipResult[1].ok =>
         zipResult[1].text \in
           IF CanonicalNamed # {} THEN TextsAt(CanonicalNamed)
           ELSE IF ChatNamed # {} THEN TextsAt(ChatNamed)
           ELSE TextsAt(LongestNamed)

\* Chat.txt was chosen though notes2.txt, which comes first, has the longer name
TranscriptPriorityWitness ==
  /\ zipResult # <<>>
  /\ Len(archive) >= 2
  /\ archive[1].name = <<"n", "o", "t", "e", "s", "2", ".", "t", "x", "t">>
  /\ archive[2].name = <<"C", "h", "a", "t", ".", "t", "x", "t">>
  /\ CanonicalNamed = {}
  /\ zipResult[1].ok
  /\ zipResult[1].text = archive[2].text

\* the media entries: the files whose name ends in an extension of line 253
MediaNamed == {i \in DOMAIN archive : ~archive[i].dir /\ HasMediaExtension(archive[i].name)}

\* the media entries whose materialization fails
Unreadable == {i \in MediaNamed : ~archive[i].readable}

\* the locators the table of the extraction gives under the keys of entry i
KeysOf(i) ==
  {MapGet(zipResult[1].mediaMap, BaseName(archive[i].name)),
   MapGet(zipResult[1].mediaMap, ToLowerCase(BaseName(archive[i].name)))}

\* C17: when a media entry of a bundle with a transcript cannot be materialized, the
\* extraction still returns the transcript, no key leads to that entry, and both keys
\* of every other media entry lead to a media entry of that basename that could be
\* read, which is the entry itself when no other shares its basename up to casing
EntryFailureNonFatal ==
  zipResult # <<>> /\ Unreadable # {} /\ CanonicalNamed \cup TextNamed # {} =>
    /\ zipResult[1].ok
    /\ zipResult[1].text \in TextsAt(CanonicalNamed \cup TextNamed)
    /\ \A u \in Unreadable : \A key \in DOMAIN zipResult[1].mediaMap :
         zipResult[1].mediaMap[key] # <<1, u>>
    /\ \A i \in MediaNamed \ Unreadable :
         /\ KeysOf(i) \subseteq
              {<<1, j>> : j \in {m \in MediaNamed \ Unreadable :
                                   SameUpToCasing(BaseName(archive[i].name), archive, m)}}
         /\ (\A j \in MediaNamed \ {i} :
               ~SameUpToCasing(BaseName(archive[i].name), archive, j))
              => KeysOf(i) = {<<1, i>>}

\* bad.png, the first entry of the bundle, could not be read: the transcript was
\* returned and m/IMG_001.JPG, a later entry, has both its keys
EntryFailureNonFatalWitness ==
  /\ zipResult # <<>>
  /\ Len(archive) = 3
  /\ archive[1].name = BadPng
  /\ archive[2].name = ChatTxt
  /\ archive[3].name = <<"m", "/">> \o ImgUpper
  /\ zipResult[1].ok
  /\ zipResult[1].text = archive[2].text
  /\ BadPng \notin DOMAIN zipResult[1].mediaMap
  /\ KeysOf(3) = {<<1, 3>>}

(***************************************************************************)
(* The files a user may select.  The line budgets 1000 and 15000 of        *)
(* App.tsx and the flush period 10000 are scaled down, and the transcripts *)
(* are as long as the budgets need for a run to take a direct and a        *)
(* scheduled continuation.                                                 *)
(***************************************************************************)
\* the limit of the first call (1000 in App.tsx:172)
FirstBatchLimit == 1

\* the limit of each later call (15000 in App.tsx:189)
ChunkLimit == 2

\* the period of the progressive flush (10000 in App.tsx:192)
FlushEvery == 2

\* the number of file selections explored
MaxUploads == 2

\* the number of reloads of the page explored
MaxReloads == 1

\* a transcript that needs the first call, a full continuation and one more
LongText ==
  JoinLines([i \in 1..(FirstBatchLimit + ChunkLimit + 1) |->
               IF i % 2 = 1 THEN HelloHeader ELSE HowAreYou])

\* a transcript that starts with a line that is no header
ShortText == JoinLines([i \in 1..(FirstBatchLimit + 1) |->
                          IF i <= FirstBatchLimit THEN HowAreYou ELSE BobAttachment])

LongFile ==
  [name |-> <<"l", "o", "n", "g", ".", "t", "x", "t">>, size |-> Len(LongText),
   text |-> LongText, entries |-> <<>>]

ShortFile ==
  [name |-> <<"s", "h", "o", "r", "t", ".", "t", "x", "t">>, size |-> Len(ShortText),
   text |-> ShortText, entries |-> <<>>]

\* a bundle with a transcript the first call consumes and the image it names
ChatBundle ==
  [name |-> <<"c", "h", "a", "t", ".", "z", "i", "p">>, size |-> 2048, text |-> <<>>,
   entries |-> << [name |-> ChatTxt, dir |-> FALSE, text |-> BobAttachment, readable |-> TRUE],
                  [name |-> <<"m", "/">> \o ImgMixed, dir |-> FALSE, text |-> <<>>,
                   readable |-> TRUE] >>]

\* a bundle without a text entry
MediaBundle ==
  [name |-> <<"m", "e", "d", "i", "a", ".", "z", "i", "p">>, size |-> 1024, text |-> <<>>,
   entries |-> << [name |-> ImgMixed, dir |-> FALSE, text |-> <<>>, readable |-> TRUE] >>]

\* a bundle with a transcript of two slices and the image it names
AlbumText == JoinLines(<<BobAttachment, HowAreYou>>)

AlbumBundle ==
  [name |-> <<"a", "l", "b", "u", "m", ".", "z", "i", "p">>, size |-> 4096, text |-> <<>>,
   entries |-> << [name |-> ChatTxt, dir |-> FALSE, text |-> AlbumText, readable |-> TRUE],
                  [name |-> ImgMixed, dir |-> FALSE, text |-> <<>>, readable |-> TRUE] >>]

Files == {LongFile, ShortFile, ChatBundle, MediaBundle, AlbumBundle}

\* e.target.files?.[0] when no file was chosen
NoFile == [name |-> <<>>, size |-> 0, text |-> <<>>, entries |-> <<>>]

DotZip == <<".", "z", "i", "p">>

\* `wa-v2-${file.name}-${file.size}`
CacheId(file) == <<file.name, file.size>>

(***************************************************************************)
(* The load driver of App.tsx: handleFileUpload (145-183) and              *)
(* processInChunks (185-203).  An invocation of handleFileUpload runs up   *)
(* to its next await in one task; parseNext runs in the task that called   *)
(* processInChunks and then in animation-frame callbacks.  Each handler is *)
(* a function of the memory it touches: [heap, owner, lastMessageRef,      *)
(* accumulatedRef, state, isBackgroundLoading, meSender, call, unit],      *)
(* call being the invocation's own record [file, pc, currentPos, saved,    *)
(* pending].  The search, date filter and display window of the view do    *)
(* not reach the driver; only their resets by handleFileUpload are kept.   *)
(***************************************************************************)
\* the number of messages of sender among the first n of ids
CountSender(h, ids, n, sender) ==
  Cardinality({i \in 1..Len(ids) : i <= n /\ h[ids[i]].sender = sender})

\* computeStats(messages) (App.tsx:67-76); wordCount and topWords are constant
computeStats(h, ids) ==
  [totalMessages |-> Len(ids),
   participants |-> [p \in {h[ids[i]].sender : i \in 1..Len(ids)} |->
                       CountSender(h, ids, Len(ids), p)],
   mediaCount |-> Cardinality({i \in 1..Len(ids) : h[ids[i]].mediaUrl # NoUrl})]

\* the number of messages detectMeSender looks at (App.tsx:81)
DetectSlice == 300

\* the position in ids of the first message of sorted[0][0]: the stable sort keeps the
\* senders with the most messages among the first DetectSlice in the order counts got
\* them as keys, the order of their first messages for names that are no numbers
TopSenderAt(h, ids) ==
  First({i \in 1..Len(ids) :
           /\ i <= DetectSlice
           /\ \A j \in 1..Len(ids) :
                j <= DetectSlice =>
                  CountSender(h, ids, DetectSlice, h[ids[j]].sender)
                    <= CountSender(h, ids, DetectSlice, h[ids[i]].sender)}, 0)

\* meSender after detectMeSender(messages) (App.tsx:78-86)
detectMeSender(prev, h, ids) ==
  IF ids = <<>> THEN prev ELSE <<h[ids[TopSenderAt(h, ids)]].sender>>

\* what the task that ran last knows of one parseWhatsAppStringChunk call: the
\* invocation that made it, where it was made (first: line 172, direct: line 189
\* reached from line 202, scheduled: line 189 reached from an animation frame), its
\* offset, the open record it was given, whether it changed an open record allocated
\* for another file, whether the invocation's controller was aborted, and whether the
\* invocation had called saveChatToCache before
CallRecord(m, k, kind, r) ==
  [call |-> k,
   kind |-> kind,
   offset |-> m.call.currentPos,
   openBefore |-> m.lastMessageRef,
   foreign |-> /\ m.lastMessageRef # 0
               /\ calls[m.owner[m.lastMessageRef]].file # m.call.file
               /\ r.heap[m.lastMessageRef] # m.heap[m.lastMessageRef],
   cancelled |-> k \in aborted,
   afterSave |-> m.call.saved # "no"]

\* the owners of the heap h that extends the heap of m with objects allocated by k
OwnersAfter(m, k, h) == m.owner \o [i \in 1..(Len(h) - Len(m.heap)) |-> k]

\* a comparison that sends a finished run back to the scheduler
MoreToParseInverted(currentPos, text) == currentPos >= Len(text)

\* currentPos < text.length (App.tsx:195)
MoreToParse(currentPos, text) == currentPos < Len(text)

\* a parseNext that presents the accumulated list at the periodic flush only
AfterChunkNoFinalFlush(m, k, text, kind, r) ==
  [heap |-> r.heap,
   owner |-> OwnersAfter(m, k, r.heap),
   lastMessageRef |-> r.current,
   accumulatedRef |-> m.accumulatedRef \o r.messages,
   state |-> IF Len(m.accumulatedRef \o r.messages) % FlushEvery = 0
             THEN [m.state EXCEPT
                     !.messages = m.accumulatedRef \o r.messages,
                     !.stats = <<computeStats(r.heap, m.accumulatedRef \o r.messages)>>]
             ELSE m.state,
   isBackgroundLoading |->
     IF MoreToParse(r.nextCharIndex, text) THEN m.isBackgroundLoading ELSE FALSE,
   meSender |-> m.meSender,
   call |-> IF MoreToParse(r.nextCharIndex, text)
            THEN [m.call EXCEPT !.currentPos = r.nextCharIndex, !.pc = "frame"]
            ELSE [m.call EXCEPT !.currentPos = r.nextCharIndex, !.pc = "done",
                                !.saved = "called",
                                !.pending = m.accumulatedRef \o r.messages],
   unit |-> Append(m.unit, CallRecord(m, k, kind, r))]

\* lines 190-200 of parseNext, r being the result of the call of line 189
AfterChunk(m, k, text, kind, r) ==
  [heap |-> r.heap,
   owner |-> OwnersAfter(m, k, r.heap),
   lastMessageRef |-> r.current,
   accumulatedRef |-> m.accumulatedRef \o r.messages,
   state |-> IF \/ r.nextCharIndex >= Len(text)
                \/ Len(m.accumulatedRef \o r.messages) % FlushEvery = 0
             THEN [m.state EXCEPT
                     !.messages = m.accumulatedRef \o r.messages,
                     !.stats = <<computeStats(r.heap, m.accumulatedRef \o r.messages)>>]
             ELSE m.state,
   isBackgroundLoading |->
     IF MoreToParse(r.nextCharIndex, text) THEN m.isBackgroundLoading ELSE FALSE,
   meSender |-> m.meSender,
   call |-> IF MoreToParse(r.nextCharIndex, text)
            THEN [m.call EXCEPT !.currentPos = r.nextCharIndex, !.pc = "frame"]
            ELSE [m.call EXCEPT !.currentPos = r.nextCharIndex, !.pc = "done",
                                !.saved = "called",
                                !.pending = m.accumulatedRef \o r.messages],
   unit |-> Append(m.unit, CallRecord(m, k, kind, r))]

\* a parseNext whose call returns the offset it was given
parseNextSameSlice(m, k, text, mediaMap, kind) ==
  AfterChunk(m, k, text, kind,
    [parseWhatsAppStringChunk(text, m.call.currentPos, ChunkLimit, mediaMap,
                              m.heap, m.lastMessageRef)
       EXCEPT !.nextCharIndex = m.call.currentPos])

\* parseNext (App.tsx:187-201) run by invocation k
parseNext(m, k, text, mediaMap, kind) ==
  IF abortControllerRef # 0 /\ abortControllerRef \in aborted
  THEN [m EXCEPT !.call.pc = "done"]
  ELSE AfterChunk(m, k, text, kind,
         parseWhatsAppStringChunk(text, m.call.currentPos, ChunkLimit, mediaMap,
                                  m.heap, m.lastMessageRef))

\* lines 173-179 of handleFileUpload, r being the result of the call of line 172
AfterFirstBatch(m, k, text, mediaMap, r) ==
  IF r.nextCharIndex < Len(text)
  THEN parseNext(
         [heap |-> r.heap,
          owner |-> OwnersAfter(m, k, r.heap),
          lastMessageRef |-> r.current,
          accumulatedRef |-> r.messages,
          state |-> [m.state EXCEPT !.messages = r.messages, !.loading = FALSE],
          isBackgroundLoading |-> TRUE,
          meSender |-> detectMeSender(m.meSender, r.heap, r.messages),
          call |-> [m.call EXCEPT !.currentPos = r.nextCharIndex, !.pc = "done"],
          unit |-> <<CallRecord(m, k, "first", r)>>],
         k, text, mediaMap, "direct")
  ELSE [heap |-> r.heap,
        owner |-> OwnersAfter(m, k, r.heap),
        lastMessageRef |-> r.current,
        accumulatedRef |-> r.messages,
        state |-> [m.state EXCEPT !.messages = r.messages, !.loading = FALSE],
        isBackgroundLoading |-> m.isBackgroundLoading,
        meSender |-> detectMeSender(m.meSender, r.heap, r.messages),
        call |-> [m.call EXCEPT !.currentPos = r.nextCharIndex, !.pc = "done"],
        unit |-> <<CallRecord(m, k, "first", r)>>]

\* lines 172-179 of handleFileUpload, once text and mediaMap are there
FirstBatch(m, k, text, mediaMap) ==
  AfterFirstBatch(m, k, text, mediaMap,
    parseWhatsAppStringChunk(text, 0, FirstBatchLimit, mediaMap, m.heap, m.lastMessageRef))

\* the catch of lines 180-182
Failed(m) ==
  [m EXCEPT !.state = [@ EXCEPT !.loading = FALSE,
                                !.error = <<"No chat logs found in archive.">>],
            !.call.pc = "done"]

\* lines 159-164: the cached messages are objects of their own
ServedFromCache(m, k, cached) ==
  [m EXCEPT
     !.heap = @ \o cached,
     !.owner = @ \o [i \in 1..Len(cached) |-> k],
     !.accumulatedRef = [i \in 1..Len(cached) |-> Len(m.heap) + i],
     !.state = [@ EXCEPT !.messages = [i \in 1..Len(cached) |-> Len(m.heap) + i],
                         !.loading = FALSE,
                         !.stats = <<computeStats(cached, [i \in 1..Len(cached) |-> i])>>],
     !.meSender = detectMeSender(@, cached, [i \in 1..Len(cached) |-> i]),
     !.call.pc = "done"]

\* the memory as invocation k finds it at the start of a task
Memory(k) ==
  [heap |-> heap,
   owner |-> owner,
   lastMessageRef |-> lastMessageRef,
   accumulatedRef |-> accumulatedRef,
   state |-> state,
   isBackgroundLoading |-> isBackgroundLoading,
   meSender |-> meSender,
   call |-> calls[k],
   unit |-> <<>>]

\* the memory as the task of invocation k leaves it
Commit(k, m) ==
  \E w \in {m} :
    /\ heap' = w.heap
    /\ owner' = w.owner
    /\ lastMessageRef' = w.lastMessageRef
    /\ accumulatedRef' = w.accumulatedRef
    /\ state' = w.state
    /\ isBackgroundLoading' = w.isBackgroundLoading
    /\ meSender' = w.meSender
    /\ calls' = [calls EXCEPT ![k] = w.call]
    /\ unit' = w.unit

\* the transcript of invocation k: file.text() or the text of the extraction
CallText(k) ==
  IF EndsWith(calls[k].file.name, DotZip)
  THEN extractChatAndMediaFromZip(calls[k].file.entries, k).text
  ELSE calls[k].file.text

\* the mediaMap of invocation k: new Map() or the table of the extraction
CallMediaMap(k) ==
  IF EndsWith(calls[k].file.name, DotZip)
  THEN extractChatAndMediaFromZip(calls[k].file.entries, k).mediaMap
  ELSE EmptyTable

\* handleFileUpload up to the await of line 158 (lines 146-158)
HandleFileUpload ==
  /\ Len(calls) < MaxUploads
  /\ \E file \in Files \cup {NoFile} :
       IF file = NoFile
       THEN /\ unit' = <<>>
            /\ UNCHANGED <<parserVars, state, isBackgroundLoading, meSender, displayLimit,
                           dateRange, abortControllerRef, aborted, calls, cache, owner, inputVars,
                           reloadedAt>>
       ELSE /\ aborted' = IF abortControllerRef # 0 THEN aborted \cup {abortControllerRef}
                          ELSE aborted
            /\ abortControllerRef' = Len(calls) + 1
            /\ state' = [state EXCEPT !.loading = TRUE, !.error = <<>>, !.messages = <<>>,
                                      !.stats = <<>>]
            /\ accumulatedRef' = <<>>
            /\ displayLimit' = BATCH_SIZE
            /\ dateRange' = [from |-> <<>>, to |-> <<>>]
            /\ calls' = Append(calls, [file |-> file, pc |-> "cache", currentPos |-> 0,
                                       saved |-> "no", pending |-> <<>>])
            /\ unit' = <<>>
            /\ UNCHANGED <<heap, lastMessageRef, content, assetTable, cursor,
                           isBackgroundLoading, meSender, cache, owner, inputVars, reloadedAt>>

\* getChatFromCache has answered: lines 159-171, up to the await of line 166 or 170
CacheResolved ==
  \E k \in DOMAIN calls :
    /\ calls[k].pc = "cache"
    /\ IF CacheId(calls[k].file) \in DOMAIN cache
       THEN Commit(k, ServedFromCache(Memory(k), k, cache[CacheId(calls[k].file)]))
       ELSE Commit(k, [Memory(k) EXCEPT
                         !.call.pc = IF EndsWith(calls[k].file.name, DotZip) THEN "zip"
                                     ELSE "text"])
    /\ UNCHANGED <<content, assetTable, cursor, displayLimit, dateRange, abortControllerRef,
                   aborted, cache, inputVars, reloadedAt>>

\* extractChatAndMediaFromZip has settled: lines 166-182
ZipResolved ==
  \E k \in DOMAIN calls :
    /\ calls[k].pc = "zip"
    /\ \E result \in {extractChatAndMediaFromZip(calls[k].file.entries, k)} :
         IF result.ok
         THEN Commit(k, FirstBatch(Memory(k), k, result.text, result.mediaMap))
         ELSE Commit(k, Failed(Memory(k)))
    /\ UNCHANGED <<content, assetTable, cursor, displayLimit, dateRange, abortControllerRef,
                   aborted, cache, inputVars, reloadedAt>>

\* file.text() has settled: lines 170-179
TextResolved ==
  \E k \in DOMAIN calls :
    /\ calls[k].pc = "text"
    /\ Commit(k, FirstBatch(Memory(k), k, calls[k].file.text, EmptyTable))
    /\ UNCHANGED <<content, assetTable, cursor, displayLimit, dateRange, abortControllerRef,
                   aborted, cache, inputVars, reloadedAt>>

\* the animation frame runs the parseNext that line 196 scheduled
ParseNext ==
  \E k \in DOMAIN calls :
    /\ calls[k].pc = "frame"
    /\ Commit(k, parseNext(Memory(k), k, CallText(k), CallMediaMap(k), "scheduled"))
    /\ UNCHANGED <<content, assetTable, cursor, displayLimit, dateRange, abortControllerRef,
                   aborted, cache, inputVars, reloadedAt>>

\* saveChatToCache after its await (db.ts:36-39): store.put(messages, cacheKey) stores
\* the messages as they are by then
SavePut ==
  \E k \in DOMAIN calls :
    /\ calls[k].saved = "called"
    /\ cache' = [key \in DOMAIN cache \cup {CacheId(calls[k].file)} |->
                   IF key = CacheId(calls[k].file) THEN Deref(heap, calls[k].pending)
                   ELSE cache[key]]
    /\ calls' = [calls EXCEPT ![k].saved = "stored"]
    /\ unit' = <<>>
    /\ UNCHANGED <<parserVars, state, isBackgroundLoading, meSender, displayLimit, dateRange,
                   abortControllerRef, aborted, owner, inputVars, reloadedAt>>

\* the number of invocations of the sessions that a reload has ended
SessionStart == IF reloadedAt = <<>> THEN 0 ELSE reloadedAt[Len(reloadedAt)]

\* the page is reloaded: the memory of App is as at its first render, the tasks and the
\* saves of the invocations so far never run, the object URLs they made are dead, and
\* the object store is what it was
Reload ==
  /\ Len(reloadedAt) < MaxReloads
  /\ reloadedAt' = Append(reloadedAt, Len(calls))
  /\ heap' = <<>>
  /\ owner' = <<>>
  /\ lastMessageRef' = 0
  /\ accumulatedRef' = <<>>
  /\ state' = [rawText |-> <<>>, messages |-> <<>>, loading |-> FALSE, error |-> <<>>,
               stats |-> <<>>]
  /\ isBackgroundLoading' = FALSE
  /\ meSender' = <<>>
  /\ displayLimit' = BATCH_SIZE
  /\ dateRange' = [from |-> <<>>, to |-> <<>>]
  /\ abortControllerRef' = 0
  /\ calls' = [k \in DOMAIN calls |->
                [calls[k] EXCEPT !.pc = "done",
                                 !.saved = IF @ = "called" THEN "lost" ELSE @,
                                 !.pending = <<>>]]
  /\ unit' = <<>>
  /\ UNCHANGED <<content, assetTable, cursor, aborted, cache, inputVars>>

Init ==
  /\ heap = <<>>
  /\ lastMessageRef = 0
  /\ accumulatedRef = <<>>
  /\ content = <<>>
  /\ assetTable = EmptyTable
  /\ cursor = 0
  /\ InitDriver
  /\ NoBundle
  /\ NoDate

Next ==
  \/ HandleFileUpload
  \/ CacheResolved
  \/ ZipResolved
  \/ TextResolved
  \/ ParseNext
  \/ SavePut
  \/ Reload

Spec == Init /\ [][Next]_vars

\* C2: no scheduled parseNext of an invocation whose controller was aborted calls
\* parseWhatsAppStringChunk
CancelledRunStops ==
  \A i \in DOMAIN unit : unit[i].kind = "scheduled" => ~unit[i].cancelled

\* C3: the first call of an invocation, at offset 0, is given an empty open record
CursorReset ==
  \A i \in DOMAIN unit : unit[i].kind = "first" => unit[i].openBefore = 0

\* C4: no call changes an open record that a call for another file allocated
CursorExclusivity ==
  \A i \in DOMAIN unit : ~unit[i].foreign

\* C5: an invocation that has called saveChatToCache got an offset at or past the end
\* of its transcript from its last call, and makes no call afterwards
FinalWriteOnlyAtEnd ==
  /\ \A k \in DOMAIN calls : calls[k].saved # "no" => calls[k].currentPos >= Len(CallText(k))
  /\ \A i \in DOMAIN unit : ~unit[i].afterSave

\* a run of the long transcript has called saveChatToCache from a scheduled parseNext
FinalWriteOnlyAtEndWitness ==
  \E k \in DOMAIN calls :
    /\ calls[k].file = LongFile
    /\ calls[k].saved = "called"
    /\ unit # <<>>
    /\ unit[Len(unit)].kind = "scheduled"
    /\ unit[Len(unit)].call = k

\* C6: no task holds two calls of one invocation
CooperativeYielding ==
  \A i, j \in DOMAIN unit : unit[i].call = unit[j].call => i = j

\* invocation k is for a bundle in which the extraction finds no transcript
NoTranscript(file) ==
  EndsWith(file.name, DotZip) /\ ~extractChatAndMediaFromZip(file.entries, 1).ok

\* C15: no step of a load of a bundle without a usable text entry, from the selection
\* of the file to the catch of the error, changes the presented messages, the stats
\* or the accumulated records
NoTranscriptKeepsState ==
  [][\A k \in DOMAIN calls' :
       /\ NoTranscript(calls'[k].file)
       /\ k \in DOMAIN calls => calls'[k] # calls[k]
       => /\ state'.messages = state.messages
          /\ state'.stats = state.stats
          /\ accumulatedRef' = accumulatedRef]_vars

\* the records of the transcript of invocation k, parsed in one call from offset 0
\* with no record open
FreshRecords(k) ==
  Deref(parseWhatsAppStringChunk(CallText(k), 0, Unbounded(CallText(k)), CallMediaMap(k),
                                 <<>>, 0).heap,
        parseWhatsAppStringChunk(CallText(k), 0, Unbounded(CallText(k)), CallMediaMap(k),
                                 <<>>, 0).messages)

\* C14: what the cache holds under the key of a file, which is what getChatFromCache
\* gives the next load of that file, is the record sequence of a fresh parse of the
\* file by an invocation that persisted it, field for field and in order
IdempotentReload ==
  \A k \in DOMAIN calls :
    CacheId(calls[k].file) \in DOMAIN cache =>
      \E j \in DOMAIN calls :
        /\ calls[j].file = calls[k].file
        /\ calls[j].saved = "stored"
        /\ cache[CacheId(calls[k].file)] = FreshRecords(j)

\* the locator url was made by an invocation of the session that is running
LiveLocator(url) == url[1] > SessionStart

\* C19: when a load has been served from the cache, every mediaUrl of a presented
\* record is a locator of the running session
CachedLocatorsRevived ==
  [][\A k \in DOMAIN calls :
       calls[k].pc = "cache" /\ calls'[k].pc = "done" =>
         \A i \in DOMAIN state'.messages :
           heap'[state'.messages[i]].mediaUrl # NoUrl
             => LiveLocator(heap'[state'.messages[i]].mediaUrl)]_vars

\* C21: a call changes no field of a record that a later header line had superseded
\* before the call: of the records there were, only the open one may differ after it
SupersededFrozen ==
  [][\A id \in DOMAIN heap : id # lastMessageRef => heap'[id] = heap[id]]_vars

\* two continuation lines, one with the marker and one naming a file, have followed the
\* second header line: the first record is as its header line made it
SupersededFrozenWitness ==
  /\ content = JoinLines(<<ViewOnceHeader, ViewOnceAuthor, SeeNotes>>)
  /\ assetTable = NotesTable
  /\ cursor >= Len(content)
  /\ Len(accumulatedRef) = 2
  /\ heap[accumulatedRef[1]] = NewMessage(MatchHeader(ViewOnceHeader),
                                          FirstAttachment(ViewOnceHeader), NotesTable)
  /\ heap[accumulatedRef[2]].mediaUrl = <<1, 2>>

(***************************************************************************)
(* SpecBudget: the caller of SpecParse over transcripts with empty and     *)
(* blank lines between a header line and a continuation line.              *)
(***************************************************************************)
\* a line of spaces
SpacesLine == <<" ", " ">>

BudgetLines == {HelloHeader, HowAreYou, BlankLine, SpacesLine}

BudgetTranscripts ==
  {JoinLines(ls) : ls \in UNION {[1..n -> BudgetLines] : n \in 0..(MaxLines + 1)}}

InitBudget ==
  /\ heap = <<>>
  /\ lastMessageRef = 0
  /\ accumulatedRef = <<>>
  /\ content \in BudgetTranscripts
  /\ assetTable = EmptyTable
  /\ cursor = 0
  /\ InitDriver
  /\ NoBundle
  /\ NoDate

SpecBudget == InitBudget /\ [][NextParse]_vars

\* the number of non-empty trimmed lines of text from offset from up to offset to
LinesBetween(text, from, to) ==
  Len(NonBlankLines(Substring(text, from, IF to > Len(text) THEN Len(text) ELSE to)))

\* the call r with the limit n from the offset from kept to the budget
WithinBudget(text, from, n, r) ==
  /\ LinesBetween(text, from, r.nextCharIndex) <= n
  /\ Len(r.messages) <= n
  /\ \/ r.nextCharIndex >= Len(text)
     \/ /\ r.nextCharIndex > 0
        /\ text[r.nextCharIndex] = "\n"
        /\ LinesBetween(text, from, r.nextCharIndex) = n

\* C22: from wherever the calls so far have stopped, a call with the limit n processes
\* at most n non-empty trimmed lines and returns at most n records; it stops after a
\* line break or past the end of the transcript, and short of the end only when it has
\* processed n non-empty lines, however many blank lines lie between them
LineBudget ==
  \A n \in 1..MaxBudget :
    WithinBudget(content, cursor, n,
      parseWhatsAppStringChunk(content, cursor, n, assetTable, heap, lastMessageRef))

\* a call with the limit 1 has passed an empty line, made the record of the header line
\* and stopped in front of the line of spaces that follows it
LineBudgetWitness ==
  /\ content = JoinLines(<<BlankLine, HelloHeader, SpacesLine, HowAreYou>>)
  /\ cursor = Len(HelloHeader) + 2
  /\ Len(accumulatedRef) = 1
  /\ heap[accumulatedRef[1]].text = Trim(MatchHeader(HelloHeader).body)

(***************************************************************************)
(* SpecAttachment: the caller of SpecBundle over bundles of a transcript   *)
(* and one media entry, for every extension of ATTACHMENT_REGEXP; the      *)
(* transcript names the entry once, in a header line or in a continuation  *)
(* line.                                                                   *)
(***************************************************************************)
UpperOf == [c \in LowerSet |-> UpperLetters[CHOOSE i \in DOMAIN LowerLetters : LowerLetters[i] = c]]

ToUpperCase(s) == [i \in 1..Len(s) |-> IF s[i] \in LowerSet THEN UpperOf[s[i]] ELSE s[i]]

\* the names before the extension
Stems == {<<"a">>, <<"I", "M", "G", "_", "1">>, <<"v", "1", ".", "2">>}

\* stem.ext for every extension of the list, written in lower and in upper case
MediaNames ==
  UNION {{stem \o <<".">> \o AttachmentExtensions[e],
          stem \o <<".">> \o ToUpperCase(AttachmentExtensions[e])} :
           stem \in Stems, e \in DOMAIN AttachmentExtensions}

\* the transcripts that name x once
NamingTexts(x) == {RefHeader(x), JoinLines(<<HelloHeader, RefAttached(x)>>)}

AttachmentBundles ==
  UNION {{<< [name |-> ChatTxt, dir |-> FALSE, readable |-> TRUE, text |-> t],
             [name |-> x, dir |-> FALSE, readable |-> TRUE, text |-> <<>>] >> :
            t \in NamingTexts(x)} : x \in MediaNames}

InitAttachment ==
  /\ heap = <<>>
  /\ lastMessageRef = 0
  /\ accumulatedRef = <<>>
  /\ content = <<>>
  /\ assetTable = EmptyTable
  /\ cursor = 0
  /\ InitDriver
  /\ archive \in AttachmentBundles
  /\ zipResult = <<>>
  /\ NoDate

SpecAttachment == InitAttachment /\ [][NextBundle]_vars

\* C23: when the transcript of a bundle has been consumed, the match in the line that
\* names the media entry is the entry's whole name, and the open record's mediaUrl is
\* the entry's locator
CompleteFilename ==
  zipResult # <<>> /\ content # <<>> /\ cursor >= Len(content) =>
    /\ FirstAttachment(ConsumedLines[Len(ConsumedLines)]) = archive[2].name
    /\ heap[lastMessageRef].mediaUrl = <<1, 2>>

\* the step is the one in which the run of the file selected last reaches the end of
\* its transcript
RunEnds(k) ==
  /\ k \in DOMAIN calls
  /\ k = Len(calls')
  /\ reloadedAt' = reloadedAt
  /\ calls[k].pc \in {"zip", "text", "frame"}
  /\ calls'[k].pc = "done"
  /\ ~NoTranscript(calls[k].file)
  /\ calls'[k].currentPos >= Len(CallText(k))

\* C24: when the run of the file selected last reaches the end of its transcript, the
\* presented messages are the accumulated list, and so is the list it passes to
\* saveChatToCache, in the same order
DeliveryConverges ==
  [][\A k \in DOMAIN calls' :
       RunEnds(k) =>
         /\ state'.messages = accumulatedRef'
         /\ calls'[k].saved = "called" => calls'[k].pending = accumulatedRef']_vars

\* the run of the long transcript, the only file selected, has ended in an animation
\* frame: its two records are presented and were passed to saveChatToCache
DeliveryConvergesWitness ==
  /\ Len(calls) = 1
  /\ calls[1].file = LongFile
  /\ calls[1].pc = "done"
  /\ calls[1].saved = "called"
  /\ unit # <<>>
  /\ unit[Len(unit)].kind = "scheduled"
  /\ Len(accumulatedRef) = 2
  /\ state.messages = accumulatedRef
  /\ calls[1].pending = accumulatedRef

(***************************************************************************)
(* SpecLive: the load driver within one session of the page, with a        *)
(* browser that settles every promise and runs every animation frame it    *)
(* was asked for; the user selects files at will.  ZipResolved,            *)
(* TextResolved and ParseNext are enabled exactly when an invocation waits *)
(* at their pc, and each of their steps changes calls, so that the last    *)
(* three conjuncts are WF_vars(A) with ENABLED <<A>>_vars written as       *)
(* Awaiting(pc).                                                           *)
(***************************************************************************)
\* an invocation waits at pc
Awaiting(pc) == \E k \in DOMAIN calls : calls[k].pc = pc

NextLive ==
  \/ HandleFileUpload
  \/ CacheResolved
  \/ ZipResolved
  \/ TextResolved
  \/ ParseNext
  \/ SavePut

SpecLive ==
  /\ Init
  /\ [][NextLive]_vars
  /\ WF_vars(CacheResolved)
  /\ WF_vars(SavePut)
  /\ ([]<>(~Awaiting("zip")) \/ []<><<ZipResolved>>_vars)
  /\ ([]<>(~Awaiting("text")) \/ []<><<TextResolved>>_vars)
  /\ ([]<>(~Awaiting("frame")) \/ []<><<ParseNext>>_vars)

\* every call of the task that ran last returned an offset past the one it was given
CallsAdvance ==
  /\ \A i \in DOMAIN unit : unit[i].offset < calls[unit[i].call].currentPos
  /\ \A i, j \in DOMAIN unit : i < j => unit[i].offset < unit[j].offset

\* the loop of invocation k is over: it has reached the end of its transcript, or k made
\* no call at all (a cache hit, a bundle without transcript)
LoopOver(k) ==
  /\ k \in DOMAIN calls
  /\ calls[k].pc = "done"
  /\ \/ calls[k].currentPos >= Len(CallText(k))
     \/ calls[k].currentPos = 0

\* C25: every parseWhatsAppStringChunk call of the driver returns a nextCharIndex
\* greater than its offset, and the loop of every invocation comes to its end
ProgressAndTermination ==
  /\ []CallsAdvance
  /\ \A k \in 1..MaxUploads : (k \in DOMAIN calls) ~> LoopOver(k)

\* the loop of the long transcript has ended in an animation frame, at an offset past
\* the end of the transcript
ProgressAndTerminationWitness ==
  /\ LoopOver(1)
  /\ calls[1].file = LongFile
  /\ calls[1].currentPos > Len(LongText)
  /\ unit # <<>>
  /\ unit[Len(unit)].kind = "scheduled"
  /\ unit[Len(unit)].offset > 0


\* the run of invocation k has parsed its transcript to the end
ParsedToEnd(k) ==
  /\ k \in DOMAIN calls
  /\ calls[k].pc = "done"
  /\ calls[k].currentPos > 0
  /\ calls[k].currentPos >= Len(CallText(k))

\* C26: every run that parsed its transcript to the end without being cancelled has
\* called saveChatToCache by then or does so later, whether the first call consumed
\* the transcript or a parseNext did
PersistenceLiveness ==
  \A k \in 1..MaxUploads :
    (ParsedToEnd(k) /\ k \notin aborted) ~> (k \in DOMAIN calls /\ calls[k].saved # "no")


\* C27: every list passed to saveChatToCache under the key of a file holds only
\* records that an invocation for that file allocated
NoCrossContamination ==
  \A k \in DOMAIN calls :
    calls[k].saved = "called" =>
      \A i \in DOMAIN calls[k].pending :
        calls[owner[calls[k].pending[i]]].file = calls[k].file


\* no invocation of handleFileUpload has a task left to run
Quiescent == calls # <<>> /\ \A k \in DOMAIN calls : calls[k].pc = "done"

\* the records of ids were allocated by invocations for the file selected last
OfLastSelection(ids) ==
  \A i \in DOMAIN ids : calls[owner[ids[i]]].file = calls[Len(calls)].file

\* C28: once every invocation has finished, the presented messages and the accumulated
\* records are records of the file selected last
LastSelectionWins ==
  Quiescent => OfLastSelection(state.messages) /\ OfLastSelection(accumulatedRef)


\* the sum of the counts of the participants in S
RECURSIVE SumOver(_, _)
SumOver(participants, S) ==
  IF S = {} THEN 0
  ELSE participants[CHOOSE p \in S : TRUE]
         + SumOver(participants, S \ {CHOOSE p \in S : TRUE})

\* a load has finished: nothing is loading and no parseNext is to come
LoadFinished == Quiescent /\ ~state.loading /\ ~isBackgroundLoading

\* C29: when a load has finished with messages presented, stats is there, counts the
\* presented messages, and its participant counts add up to that number
StatisticsConsistency ==
  LoadFinished /\ state.messages # <<>> =>
    /\ state.stats # <<>>
    /\ state.stats[1].totalMessages = Len(state.messages)
    /\ SumOver(state.stats[1].participants, DOMAIN state.stats[1].participants)
         = state.stats[1].totalMessages


\* the day, the month index and the year that formatFullDate resolves for s
\* (MessageBubble.tsx:24-45)
DisplayResolved(s, now) ==
  [year |-> YearOf(DateParts(s), now),
   month |-> DayAndMonth(ParseInt(DateParts(s)[1]), ParseInt(DateParts(s)[2])).monthIdx,
   day |-> DayAndMonth(ParseInt(DateParts(s)[1]), ParseInt(DateParts(s)[2])).day]

\* s holds a year token after its two leading tokens
HasYearToken(s) == Len(DateParts(s)) >= 3 /\ DateParts(s)[3] # <<>>

\* d is a day of the calendar
IsCalendarDate(d) == d.month \in 0..11 /\ d.day \in 1..DaysInMonth(d.year, d.month)

\* C30 as stated: for every date of two leading tokens and a year token, the date
\* parseComparableDate returns has the day, the month index and the year that
\* formatFullDate resolves
FilterAgreesWithDisplay ==
  msgDate # <<>> /\ HasYearToken(dateStr) =>
    msgDate[1] = DisplayResolved(dateStr, thisYear)

\* C30, amended: the two agree for every date of two leading tokens and a year token
\* that formatFullDate resolves to a day of the calendar
FilterAgreesOnCalendarDates ==
  msgDate # <<>> /\ HasYearToken(dateStr) /\ IsCalendarDate(DisplayResolved(dateStr, thisYear)) =>
    msgDate[1] = DisplayResolved(dateStr, thisYear)

\* the month-first date of the README was read by the filter as 26 May 2023
FilterAgreesOnCalendarDatesWitness ==
  /\ dateStr = <<"5", "/", "2", "6", "/", "2", "3">>
  /\ msgDate = <<[year |-> 2023, month |-> 4, day |-> 26]>>


\* C31: after an extraction that returned, the table gives, under the verbatim basename
\* of every media entry that could be read, the locator of that entry
VerbatimKeyIntegrity ==
  zipResult # <<>> /\ zipResult[1].ok =>
    \A i \in MediaNamed \ Unreadable :
      MapGet(zipResult[1].mediaMap, BaseName(archive[i].name)) = <<1, i>>

=============================================================================
